---- MODULE Spec2Model ----
(***************************************************************************)
(* Model of the vocal analysis pipeline of backend/voice_analyzer.py       *)
(* (class VoiceAnalyzer).                                                  *)
(*                                                                         *)
(* Units.  Frequencies are integers in centihertz (220 Hz = 22000), so     *)
(* that estimate*0.7 and the semitone boundaries stay integral; vibrato    *)
(* rates are in centihertz too; jitter and shimmer are in millionths       *)
(* (0.015 = 15000); brightness is in thousandths (0.05 = 50); a dynamics   *)
(* score is in ten-thousandths (0.08 = 800).  TLC integers are 32 bit, the *)
(* scales are chosen so that no product below exceeds that.                *)
(***************************************************************************)
EXTENDS Integers, Sequences, FiniteSets, TLC

VARIABLES
    in,            \* per invocation: the arguments and the decoded file
    pc,            \* per invocation: position in analyze_audio_file
    pitch_values,  \* per invocation: local pitch_values
    results,       \* per invocation: local analysis_results (<<>> = unset)
    ret,           \* per invocation: the returned record (<<>> = none yet)
    via,           \* per invocation: which return statement produced ret
    log,           \* per invocation: the stages entered, in order
    rng,           \* values taken so far from the random module's generator
    http           \* per request: the endpoint's position, file and answer

vars == <<in, pc, pitch_values, results, ret, via, log, rng, http>>

(***************************************************************************)
(* Bounds of the model                                                     *)
(***************************************************************************)
\* longest pitch series among the general inputs
MaxLen == 12
\* random.uniform(a, b) is sampled at a + (b-a)*k/RandSteps, k = 0..RandSteps
RandSteps == 2

Hz(x) == x * 100

(***************************************************************************)
(* numpy helpers                                                           *)
(***************************************************************************)
RECURSIVE SeqSum(_)
SeqSum(s) == IF s = <<>> THEN 0 ELSE Head(s) + SeqSum(Tail(s))

RECURSIVE Insert(_, _)
Insert(x, s) ==
    IF s = <<>> THEN <<x>>
    ELSE IF x <= Head(s) THEN <<x>> \o s
    ELSE <<Head(s)>> \o Insert(x, Tail(s))

RECURSIVE np_sort(_)
np_sort(s) == IF s = <<>> THEN <<>> ELSE Insert(Head(s), np_sort(Tail(s)))

Abs(x) == IF x < 0 THEN -x ELSE x

\* np.mean of a non-empty series (floor to the unit)
Mean(s) == SeqSum(s) \div Len(s)

\* np.percentile(s, q), linear interpolation between the closest ranks
Percentile(s, q) ==
    LET a   == np_sort(s)
        pos == q * (Len(s) - 1)
        i   == pos \div 100
        fr  == pos % 100
    IN  IF fr = 0 THEN a[i + 1]
        ELSE a[i + 1] + ((a[i + 2] - a[i + 1]) * fr) \div 100

\* np.median
Median(s) == Percentile(s, 50)

\* np.diff
Diff(s) == [i \in 1..(Len(s) - 1) |-> s[i + 1] - s[i]]

\* a clamp that forgets its upper bound
ClipLowOnly(x, lo, hi) == IF x < lo THEN lo ELSE x

\* np.clip
Clip(x, lo, hi) == IF x < lo THEN lo ELSE IF x > hi THEN hi ELSE x

\* Python round(x, ndigits) on a value held in integer units: round to a
\* multiple of q, ties to even
RoundTo(x, q) ==
    LET d == x \div q
        r == x % q
    IN  IF 2 * r < q THEN d * q
        ELSE IF 2 * r > q THEN (d + 1) * q
        ELSE IF d % 2 = 0 THEN d * q ELSE (d + 1) * q

\* s[lo:hi] with 0-based Python slice bounds
Slice(s, lo, hi) == [i \in 1..(hi - lo) |-> s[lo + i]]

(***************************************************************************)
(* Notes.  A note name f"{note_names[note_index]}{octave}" is kept as the  *)
(* pair it is printed from.                                                *)
(***************************************************************************)
note_names == <<"C", "C#", "D", "D#", "E", "F", "F#", "G", "G#", "A", "A#", "B">>

Note(n, o) == [name |-> n, octave |-> o]

\* half_steps covered by the two tables below
MinHalf == -12
MaxHalf == 131

\* HalfStepFloor[h - MinHalf + 1] is the least frequency f (centihertz) with
\* round(12 * log2(f / c0)) >= h, where c0 = 440 * 2 ** -4.75
HalfStepFloor ==
    <<
       795, 842, 892, 945, 1001, 1061, 1124, 1191, 1261, 1336,
       1416, 1500, 1589, 1684, 1784, 1890, 2002, 2121, 2247, 2381,
       2522, 2672, 2831, 2999, 3178, 3367, 3567, 3779, 4004, 4242,
       4494, 4761, 5044, 5344, 5662, 5998, 6355, 6733, 7133, 7557,
       8007, 8483, 8987, 9521, 10088, 10687, 11323, 11996, 12709, 13465,
       14266, 15114, 16013, 16965, 17974, 19042, 20175, 21374, 22645, 23992,
       25418, 26930, 28531, 30227, 32025, 33929, 35947, 38084, 40349, 42748,
       45290, 47983, 50836, 53859, 57061, 60454, 64049, 67858, 71893, 76168,
       80697, 85495, 90579, 95965, 101672, 107717, 114122, 120908, 128098, 135715,
       143785, 152335, 161393, 170990, 181158, 191930, 203343, 215434, 228244, 241816,
       256195, 271430, 287570, 304669, 322786, 341980, 362315, 383859, 406685, 430867,
       456488, 483632, 512390, 542859, 575139, 609338, 645571, 683959, 724629, 767718,
       813369, 861734, 912976, 967264, 1024780, 1085717, 1150277, 1218676, 1291142, 1367917,
       1449258, 1535435, 1626737, 1723468, 1825951, 1934527, 2049560, 2171433, 2300553, 2437351,
       2582284, 2735834, 2898516, 3070870, 3253474
    >>

\* round(12 * np.log2(frequency / c0))
HalfSteps(f) ==
    CHOOSE h \in MinHalf..MaxHalf :
        /\ HalfStepFloor[h - MinHalf + 1] <= f
        /\ f < HalfStepFloor[h - MinHalf + 2]

_frequency_to_note(frequency) ==
    IF frequency <= 0 THEN Note("C", 3)
    ELSE LET half_steps == HalfSteps(frequency)
             octave     == half_steps \div 12
             note_index == half_steps % 12
         IN  Note(note_names[note_index + 1], octave)

\* NoteHz[h - MinHalf + 1] = c0 * 2 ** (h / 12) in centihertz:
\* the frequency librosa.note_to_hz gives the note h half steps above C0
NoteHz ==
    <<
       818, 866, 918, 972, 1030, 1091, 1156, 1225, 1298, 1375,
       1457, 1543, 1635, 1732, 1835, 1945, 2060, 2183, 2312, 2450,
       2596, 2750, 2914, 3087, 3270, 3465, 3671, 3889, 4120, 4365,
       4625, 4900, 5191, 5500, 5827, 6174, 6541, 6930, 7342, 7778,
       8241, 8731, 9250, 9800, 10383, 11000, 11654, 12347, 13081, 13859,
       14683, 15556, 16481, 17461, 18500, 19600, 20765, 22000, 23308, 24694,
       26163, 27718, 29366, 31113, 32963, 34923, 36999, 39200, 41530, 44000,
       46616, 49388, 52325, 55437, 58733, 62225, 65926, 69846, 73999, 78399,
       83061, 88000, 93233, 98777, 104650, 110873, 117466, 124451, 131851, 139691,
       147998, 156798, 166122, 176000, 186466, 197553, 209300, 221746, 234932, 248902,
       263702, 279383, 295996, 313596, 332244, 352000, 372931, 395107, 418601, 443492,
       469864, 497803, 527404, 558765, 591991, 627193, 664488, 704000, 745862, 790213,
       837202, 886984, 939727, 995606, 1054808, 1117530, 1183982, 1254385, 1328975, 1408000,
       1491724, 1580427, 1674404, 1773969, 1879455, 1991213, 2109616, 2235061, 2367964, 2508771,
       2657950, 2816000, 2983448, 3160853
    >>

\* librosa.note_to_hz on a name produced above
note_to_hz(note) ==
    LET pc_ == CHOOSE i \in 1..12 : note_names[i] = note.name
    IN  NoteHz[12 * note.octave + (pc_ - 1) - MinHalf + 1]

(***************************************************************************)
(* The optional float argument mean_pitch (the hint).  A float is None, a  *)
(* number or NaN; bool(x) and x > 0 are Python's.                          *)
(***************************************************************************)
NoHint   == [kind |-> "none", val |-> 0]
NaNHint  == [kind |-> "nan", val |-> 0]
Num(x)   == [kind |-> "num", val |-> x]

\* `if x` for x: Optional[float]
Truthy(x) == x.kind = "nan" \/ (x.kind = "num" /\ x.val # 0)

\* `x > 0` (False for NaN)
Positive(x) == x.kind = "num" /\ x.val > 0

(***************************************************************************)
(* Metric calculators.  buf is the decoded file: its fields are what the   *)
(* librosa / scipy calls return on it.  err names the calculator whose try *)
(* block raises.                                                           *)
(***************************************************************************)
\* a trimmed mean that drops floor(n/10) values at either end
TrimmedMeanSymmetric(pv) ==
    IF Len(pv) < 3 THEN Mean(pv)
    ELSE Mean(Slice(np_sort(pv), Len(pv) \div 10, Len(pv) - Len(pv) \div 10))

_calculate_robust_mean_pitch(pv) ==
    IF Len(pv) < 3 THEN Mean(pv)
    ELSE Mean(Slice(np_sort(pv), (Len(pv) * 1) \div 10, (Len(pv) * 9) \div 10))

\* pitch_values[np.where(pitch_diff < stable_threshold)[0]]
RECURSIVE StablePitches(_, _, _, _)
StablePitches(pv, pitch_diff, thr, i) ==
    IF i > Len(pitch_diff) THEN <<>>
    ELSE (IF pitch_diff[i] < thr THEN <<pv[i]>> ELSE <<>>)
            \o StablePitches(pv, pitch_diff, thr, i + 1)

_get_stable_pitch_percentile(pv, percentile) ==
    IF Len(pv) < 5 THEN Percentile(pv, percentile)
    ELSE LET d                == Diff(pv)
             pitch_diff       == [i \in 1..Len(d) |-> Abs(d[i])]
             stable_threshold == Percentile(pitch_diff, 50)
             stable_pitches   == StablePitches(pv, pitch_diff, stable_threshold, 1)
         IN  IF Len(stable_pitches) > 0
             THEN Percentile(stable_pitches, percentile)
             ELSE Percentile(pv, percentile)

\* cv = np.var / np.mean ** 2, evaluated on whole hertz
_estimate_vibrato_from_variance(pv) ==
    LET h          == [i \in 1..Len(pv) |-> pv[i] \div 100]
        pitch_mean == Mean(h)
        pitch_var  == SeqSum([i \in 1..Len(h) |->
                                (h[i] - pitch_mean) * (h[i] - pitch_mean)]) \div Len(h)
        m2         == pitch_mean * pitch_mean
    IN  IF pitch_var < (m2 + 999) \div 1000 THEN 0
        ELSE IF pitch_var < (5 * m2 + 999) \div 1000 THEN 450
        ELSE IF pitch_var < (m2 + 99) \div 100 THEN 550
        ELSE 650

\* a spectral method that is tried on series of any length
VibratoSpectralAlways(pv, buf, err) ==
    IF err = "vibrato" THEN 500
    ELSE IF buf.vib_peak > 0 /\ buf.vib_sig THEN buf.vib_peak
    ELSE _estimate_vibrato_from_variance(pv)

\* lines 217-259; the spectral analysis of lines 224-235 is what the try
\* block guards
_calculate_vibrato_rate_advanced(pv, buf, err) ==
    IF Len(pv) < 20 THEN _estimate_vibrato_from_variance(pv)
    ELSE IF err = "vibrato" THEN 500
    ELSE IF buf.vib_peak > 0 /\ buf.vib_sig THEN buf.vib_peak
    ELSE _estimate_vibrato_from_variance(pv)

\* a jitter that is returned as computed
JitterUnclipped(pv, buf, err) ==
    IF err = "jitter" THEN 15000
    ELSE IF Len(pv) < 5 THEN 15000
    ELSE buf.jit_raw

_calculate_jitter_advanced(pv, buf, err) ==
    IF err = "jitter" THEN 15000
    ELSE IF Len(pv) < 5 THEN 15000
    ELSE Clip(buf.jit_raw, 1000, 40000)

_simple_shimmer_calculation(buf, err) ==
    IF err = "shimmer_both" THEN 20000
    ELSE IF buf.shim_rms >= 0 THEN Clip(buf.shim_rms, 10000, 30000)
    ELSE 20000

_calculate_shimmer_advanced(buf, err) ==
    IF err \in {"shimmer", "shimmer_both"} THEN _simple_shimmer_calculation(buf, err)
    ELSE IF buf.shim_peaks < 5 THEN _simple_shimmer_calculation(buf, err)
    ELSE Clip(buf.shim_raw, 5000, 50000)

\* a score that is raised from 50 values on
DynamicsScoreFrom50(pv, buf) ==
    IF Len(pv) >= 50
    THEN (buf.dyn_score * (10000 + 20 * buf.dyn_pattern)) \div 10000
    ELSE buf.dyn_score

\* lines 421-431: the weighted score, raised by the pattern strength of a
\* series of more than 50 values
dynamics_score(pv, buf) ==
    IF Len(pv) > 50
    THEN (buf.dyn_score * (10000 + 20 * buf.dyn_pattern)) \div 10000
    ELSE buf.dyn_score

\* buckets that take a score on a boundary into the lower bucket
DynamicsBoundaryLow(score) ==
    IF score <= 800 THEN "stable"
    ELSE IF score <= 1500 THEN "controlled"
    ELSE IF score <= 2500 THEN "variable"
    ELSE IF score <= 3500 THEN "expressive"
    ELSE "highly expressive"

\* lines 434-443
dynamics_category(score) ==
    IF score < 800 THEN "stable"
    ELSE IF score < 1500 THEN "controlled"
    ELSE IF score < 2500 THEN "variable"
    ELSE IF score < 3500 THEN "expressive"
    ELSE "highly expressive"

\* a top bucket returned under a label of its own
DynamicsUnlabelledTop(pv, buf, err) ==
    IF err = "dynamics" THEN "stable"
    ELSE IF buf.dyn_score < 800 THEN "stable"
    ELSE IF buf.dyn_score < 1500 THEN "controlled"
    ELSE IF buf.dyn_score < 2500 THEN "variable"
    ELSE IF buf.dyn_score < 3500 THEN "expressive"
    ELSE "dramatic"

_categorize_dynamics_advanced(pv, buf, err) ==
    IF err = "dynamics" THEN "stable"
    ELSE dynamics_category(dynamics_score(pv, buf))

\* harmonic_features['brightness']
_extract_harmonic_features(buf, err) ==
    IF err = "harmonic" THEN 50 ELSE buf.bright

\* the simple classifier with the baritone bucket starting at 200 Hz
SimpleVoiceTypeFrom200(pitch) ==
    IF pitch < Hz(200) THEN "bass"
    ELSE IF pitch < Hz(300) THEN "baritone"
    ELSE IF pitch < Hz(350) THEN "tenor"
    ELSE "alto"

_simple_voice_type(pitch) ==
    IF pitch < Hz(250) THEN "bass"
    ELSE IF pitch < Hz(300) THEN "baritone"
    ELSE IF pitch < Hz(350) THEN "tenor"
    ELSE "alto"

\* the classifier with thresholds that belong to the lower bucket
VoiceTypeInclusive(pv, brightness, err) ==
    IF err = "voice_type"
    THEN _simple_voice_type(IF Len(pv) > 0 THEN Mean(pv) ELSE Hz(250))
    ELSE LET central_pitch  == (7 * Mean(pv) + 3 * Median(pv)) \div 10
             adjusted_pitch == (central_pitch * (1000 + (brightness - 50) * 2)) \div 1000
         IN  IF adjusted_pitch <= Hz(160) THEN "bass"
             ELSE IF adjusted_pitch <= Hz(200) THEN "bass-baritone"
             ELSE IF adjusted_pitch <= Hz(250) THEN "baritone"
             ELSE IF adjusted_pitch <= Hz(300) THEN "tenor"
             ELSE IF adjusted_pitch <= Hz(350) THEN "alto"
             ELSE IF adjusted_pitch <= Hz(450) THEN "mezzo-soprano"
             ELSE "soprano"

_determine_voice_type_advanced(pv, brightness, err) ==
    IF err = "voice_type"
    THEN LET mean_pitch == IF Len(pv) > 0 THEN Mean(pv) ELSE Hz(250)
         IN  _simple_voice_type(mean_pitch)
    ELSE LET mean_pitch     == Mean(pv)
             median_pitch   == Median(pv)
             central_pitch  == (7 * mean_pitch + 3 * median_pitch) \div 10
             \* 1000 * (1.0 + (brightness - 0.05) * 2)
             brightness_adjustment == 1000 + (brightness - 50) * 2
             adjusted_pitch == (central_pitch * brightness_adjustment) \div 1000
         IN  IF adjusted_pitch < Hz(160) THEN "bass"
             ELSE IF adjusted_pitch < Hz(200) THEN "bass-baritone"
             ELSE IF adjusted_pitch < Hz(250) THEN "baritone"
             ELSE IF adjusted_pitch < Hz(300) THEN "tenor"
             ELSE IF adjusted_pitch < Hz(350) THEN "alto"
             ELSE IF adjusted_pitch < Hz(450) THEN "mezzo-soprano"
             ELSE "soprano"

\* lines 62-71: the record of the eight metrics
Calculators(pv, buf, err) ==
    [ mean_pitch   |-> _calculate_robust_mean_pitch(pv),
      vibrato_rate |-> _calculate_vibrato_rate_advanced(pv, buf, err),
      jitter       |-> _calculate_jitter_advanced(pv, buf, err),
      shimmer      |-> _calculate_shimmer_advanced(buf, err),
      dynamics     |-> _categorize_dynamics_advanced(pv, buf, err),
      voice_type   |-> _determine_voice_type_advanced(pv,
                            _extract_harmonic_features(buf, err), err),
      lowest_note  |-> _frequency_to_note(_get_stable_pitch_percentile(pv, 5)),
      highest_note |-> _frequency_to_note(_get_stable_pitch_percentile(pv, 95)) ]

(***************************************************************************)
(* Validator                                                               *)
(***************************************************************************)
\* `'bass' in voice_type` and the like: the voice types containing the word
Containing(word) ==
    CASE word = "bass"     -> {"bass", "bass-baritone"}
      [] word = "baritone" -> {"baritone", "bass-baritone"}
      [] word = "tenor"    -> {"tenor"}
      [] word = "soprano"  -> {"soprano", "mezzo-soprano"}

\* an override that replaces the pitch but keeps the voice type it had
HintOverrideKeepsVoiceType(res, frontend_pitch) ==
    IF /\ Truthy(frontend_pitch) /\ Positive(frontend_pitch)
       /\ (res.mean_pitch < Hz(50) \/ res.mean_pitch > Hz(1000))
    THEN [res EXCEPT !.mean_pitch = frontend_pitch.val]
    ELSE res

\* lines 513-518: trust the frontend pitch when the backend's is unrealistic
HintOverride(res, frontend_pitch) ==
    IF /\ Truthy(frontend_pitch) /\ Positive(frontend_pitch)
       /\ (res.mean_pitch < Hz(50) \/ res.mean_pitch > Hz(1000))
    THEN [res EXCEPT !.mean_pitch = frontend_pitch.val,
                     !.voice_type = _simple_voice_type(frontend_pitch.val)]
    ELSE res

\* lines 521-524
ClampMetrics(res) ==
    [res EXCEPT !.mean_pitch   = Clip(@, Hz(80), Hz(800)),
                !.vibrato_rate = Clip(@, 0, 1000),
                !.jitter       = Clip(@, 1000, 50000),
                !.shimmer      = Clip(@, 5000, 60000)]

\* lines 533-547: the default range of a voice type
DefaultRange(voice_type) ==
    IF voice_type \in Containing("bass") THEN <<Note("E", 2), Note("E", 4)>>
    ELSE IF voice_type \in Containing("baritone") THEN <<Note("G", 2), Note("G", 4)>>
    ELSE IF voice_type \in Containing("tenor") THEN <<Note("C", 3), Note("C", 5)>>
    ELSE IF voice_type \in Containing("soprano") THEN <<Note("C", 4), Note("C", 6)>>
    ELSE <<Note("G", 3), Note("G", 5)>>

\* lines 526-547
ValidateNoteRange(res) ==
    LET lowest_freq  == note_to_hz(res.lowest_note)
        highest_freq == note_to_hz(res.highest_note)
    IN  IF 2 * highest_freq < 3 * lowest_freq
        THEN [res EXCEPT !.lowest_note  = DefaultRange(res.voice_type)[1],
                         !.highest_note = DefaultRange(res.voice_type)[2]]
        ELSE res

\* a validator that takes every positive hint, whatever the computed mean
ValidateHintAlways(res, frontend_pitch) ==
    ValidateNoteRange(ClampMetrics(
        IF Truthy(frontend_pitch) /\ Positive(frontend_pitch)
        THEN [res EXCEPT !.mean_pitch = frontend_pitch.val,
                         !.voice_type = _simple_voice_type(frontend_pitch.val)]
        ELSE res))

\* lines 510-549
_validate_and_refine_results(res, frontend_pitch) ==
    ValidateNoteRange(ClampMetrics(HintOverride(res, frontend_pitch)))

(***************************************************************************)
(* Fallback generator.  draw holds this call's values of the random        *)
(* module: k-th sample points of random.uniform and the random.choice.     *)
(***************************************************************************)
\* random.uniform(a, b) at sample point k
Uniform(a, b, k) == a + ((b - a) * k) \div RandSteps

Draws ==
    [pitch : 0..RandSteps, jitter : 0..RandSteps, factor : 0..RandSteps,
     vibrato : 0..RandSteps, dynamics : {"stable", "controlled", "variable"}]

\* a table whose tenor pitch range ends below the tenor threshold
ParamRangesShortTenor(voice_type) ==
    CASE voice_type = "bass" ->
            [pitch |-> <<Hz(85), Hz(260)>>, vibrato |-> <<350, 550>>, jitter |-> <<8000, 20000>>]
      [] voice_type = "baritone" ->
            [pitch |-> <<Hz(110), Hz(290)>>, vibrato |-> <<400, 600>>, jitter |-> <<7000, 18000>>]
      [] voice_type = "tenor" ->
            [pitch |-> <<Hz(130), Hz(290)>>, vibrato |-> <<450, 650>>, jitter |-> <<6000, 16000>>]
      [] voice_type = "alto" ->
            [pitch |-> <<Hz(175), Hz(440)>>, vibrato |-> <<500, 700>>, jitter |-> <<5000, 15000>>]

param_ranges(voice_type) ==
    CASE voice_type = "bass" ->
            [pitch |-> <<Hz(85), Hz(260)>>, vibrato |-> <<350, 550>>, jitter |-> <<8000, 20000>>]
      [] voice_type = "baritone" ->
            [pitch |-> <<Hz(110), Hz(290)>>, vibrato |-> <<400, 600>>, jitter |-> <<7000, 18000>>]
      [] voice_type = "tenor" ->
            [pitch |-> <<Hz(130), Hz(340)>>, vibrato |-> <<450, 650>>, jitter |-> <<6000, 16000>>]
      [] voice_type = "alto" ->
            [pitch |-> <<Hz(175), Hz(440)>>, vibrato |-> <<500, 700>>, jitter |-> <<5000, 15000>>]
      [] OTHER ->
            [pitch |-> <<Hz(130), Hz(340)>>, vibrato |-> <<450, 650>>, jitter |-> <<6000, 16000>>]

\* an estimate that is always drawn at random
HintIgnored(mean_pitch, draw) == Num(Uniform(Hz(150), Hz(400), draw.pitch))

\* `mean_pitch if mean_pitch else random.uniform(150, 400)`
HintOrRandom(mean_pitch, draw) ==
    IF Truthy(mean_pitch) THEN mean_pitch
    ELSE Num(Uniform(Hz(150), Hz(400), draw.pitch))

\* an estimate that prefers the hint to the audio
EstimateHintFirst(mean_pitch, audio, draw) ==
    IF Truthy(mean_pitch) THEN mean_pitch
    ELSE IF audio # <<>> /\ audio[1].samples > 0 /\ ~audio[1].quick_raises
            /\ audio[1].quick # <<>>
    THEN Num(Median(audio[1].quick))
    ELSE Num(Uniform(Hz(150), Hz(400), draw.pitch))

\* lines 568-589; audio is <<>> for None and <<buf>> otherwise
estimated_pitch(mean_pitch, audio, draw) ==
    IF audio # <<>> /\ audio[1].samples > 0
    THEN IF audio[1].quick_raises THEN HintOrRandom(mean_pitch, draw)
         ELSE IF audio[1].quick # <<>> THEN Num(Median(audio[1].quick))
         ELSE HintOrRandom(mean_pitch, draw)
    ELSE HintOrRandom(mean_pitch, draw)

\* the values one call takes from the module-level generator of random:
\* lines 606, 607, 612 and 616, and line 587 or 589 when the estimate is drawn
RandomCalls(mean_pitch, audio) ==
    LET from_audio == /\ audio # <<>>
                      /\ audio[1].samples > 0
                      /\ ~audio[1].quick_raises
                      /\ audio[1].quick # <<>>
    IN  IF from_audio \/ Truthy(mean_pitch) THEN 4 ELSE 5

\* a fallback whose shimmer factor is drawn from [0.8, 1.8]
FallbackLooseFactor(mean_pitch, audio, draw) ==
    LET est == estimated_pitch(mean_pitch, audio, draw)
    IN  IF est.kind = "nan" THEN <<>>
        ELSE LET voice_type   == _simple_voice_type(est.val)
                 ranges       == param_ranges(voice_type)
                 jitter_base  == Uniform(ranges.jitter[1], ranges.jitter[2], draw.jitter)
                 shimmer_base == (jitter_base * Uniform(80, 180, draw.factor)) \div 100
             IN << [ mean_pitch   |-> Clip(est.val, ranges.pitch[1], ranges.pitch[2]),
                     vibrato_rate |-> RoundTo(Uniform(ranges.vibrato[1], ranges.vibrato[2],
                                                      draw.vibrato), 10),
                     jitter       |-> RoundTo(jitter_base, 1000),
                     shimmer      |-> RoundTo(shimmer_base, 1000),
                     dynamics     |-> draw.dynamics,
                     voice_type   |-> voice_type,
                     lowest_note  |-> _frequency_to_note((est.val * 7) \div 10),
                     highest_note |-> _frequency_to_note((est.val * 18) \div 10) ] >>

\* the returned record in a one-element sequence, or <<>> when the call
\* raises: round() of a NaN in _frequency_to_note is a ValueError
_enhanced_fallback_analysis(mean_pitch, audio, draw) ==
    LET est == estimated_pitch(mean_pitch, audio, draw)
    IN  IF est.kind = "nan" THEN <<>>
        ELSE LET voice_type   == _simple_voice_type(est.val)
                 ranges       == param_ranges(voice_type)
                 jitter_base  == Uniform(ranges.jitter[1], ranges.jitter[2], draw.jitter)
                 shimmer_base == (jitter_base * Uniform(120, 180, draw.factor)) \div 100
             IN << [ mean_pitch   |-> Clip(est.val, ranges.pitch[1], ranges.pitch[2]),
                     vibrato_rate |-> RoundTo(Uniform(ranges.vibrato[1], ranges.vibrato[2],
                                                      draw.vibrato), 10),
                     jitter       |-> RoundTo(jitter_base, 1000),
                     shimmer      |-> RoundTo(shimmer_base, 1000),
                     dynamics     |-> draw.dynamics,
                     voice_type   |-> voice_type,
                     lowest_note  |-> _frequency_to_note((est.val * 7) \div 10),
                     highest_note |-> _frequency_to_note((est.val * 18) \div 10) ] >>

(***************************************************************************)
(* Inputs: the path argument, the hint and, for a decodable file, what the *)
(* signal-processing libraries make of it.                                 *)
(***************************************************************************)
\* line 51: fewer pitch values than this go to the fallback
MinPitchCount == 10

Flat(n, f) == [i \in 1..n |-> Hz(f)]

\* a rise and fall around f with frame-to-frame changes of several sizes
Swell == <<0, 10, 30, 60, 60, 50, 20, 0>>
Shaped(n, f, scale) == [i \in 1..n |-> Hz(f + scale * Swell[((i - 1) % 8) + 1])]

\* What the numerical code computes on one recording:
\*   vib_peak     vibrato_freqs[peak_idx], line 245 (0: no bin in 3-8 Hz)
\*   vib_sig      vibrato_power > 3 * noise_floor, line 251
\*   jit_raw      final_jitter, line 314
\*   shim_peaks   len(peaks), line 334
\*   shim_raw     final_shimmer, line 367
\*   shim_rms     std / mean of rms_values, line 390 (-1: no rms_values)
\*   dyn_score    dynamics_score of lines 421-422
\*   dyn_pattern  pattern_strength, line 430, in hundredths
Quality(vp, vs, jr, sp, sr, rms, ds, dp) ==
    [vib_peak |-> vp, vib_sig |-> vs, jit_raw |-> jr, shim_peaks |-> sp,
     shim_raw |-> sr, shim_rms |-> rms, dyn_score |-> ds, dyn_pattern |-> dp]

Qualities ==
    { Quality(0,   FALSE, 200,   3,  0,      -1,    500,  0),
      Quality(550, TRUE,  12000, 40, 30000,  15000, 1000, 5000),
      Quality(550, FALSE, 30000, 2,  0,      50000, 2000, 5000),
      Quality(800, TRUE,  90000, 40, 120000, 50000, 3000, 0),
      Quality(300, TRUE,  45000, 9,  2000,   4000,  6000, 100) }

Buf(n, pv, quick, qr, b, q) ==
    [samples |-> n, pitches |-> pv, quick |-> quick, quick_raises |-> qr,
     bright |-> b, q |-> q]

PlainQ == Quality(550, TRUE, 12000, 40, 30000, 15000, 1000, 5000)

\* flat series on and beside every voice-type threshold, neutral brightness
ThresholdHz ==
    {159, 160, 161, 199, 200, 201, 249, 250, 251, 299, 300, 301,
     349, 350, 351, 449, 450, 451}

FlatBuffers ==
    {Buf(44100, Flat(MinPitchCount, f), <<>>, FALSE, 50, PlainQ) : f \in ThresholdHz}

VoicedSeries ==
    { Flat(MaxLen, 220), Flat(MinPitchCount, 70), Flat(MinPitchCount, 1500),
      Shaped(MaxLen, 200, 3), Shaped(MinPitchCount, 1200, 10),
      Shaped(MaxLen, 120, 1) }

VoicedBuffers ==
    {Buf(66150, pv, <<>>, FALSE, b, q) :
        pv \in VoicedSeries, b \in {30, 50, 100}, q \in Qualities}

\* one recording at scores on and beside every dynamics boundary
DynamicsScores == {0, 799, 800, 801, 1499, 1500, 2499, 2500, 3499, 3500, 9000}

DynamicsBuffers ==
    {Buf(66150, Shaped(MaxLen, 200, 3), <<>>, FALSE, 50,
         [PlainQ EXCEPT !.dyn_score = s]) : s \in DynamicsScores}

\* line 220: the spectral vibrato method needs this many pitch values
SpectralLen == 20
\* line 425: the pattern strength is used above this many pitch values
PatternLen == 50

\* series on and beside the two length thresholds of the calculators; the
\* pattern strength of line 430 is 0 for a flat series and at least the
\* number of differences for any other
LongBuffers ==
    {Buf(66150, Flat(n, 220), <<>>, FALSE, 50, [q EXCEPT !.dyn_pattern = 0]) :
        n \in {SpectralLen - 1, SpectralLen, PatternLen - 1, PatternLen, PatternLen + 1},
        q \in Qualities}
    \cup {Buf(66150, Shaped(n, f, 1), <<>>, FALSE, 50, [q EXCEPT !.dyn_pattern = 5000]) :
        n \in {SpectralLen - 1, SpectralLen, PatternLen - 1, PatternLen, PatternLen + 1},
        f \in {200, 400}, q \in Qualities}

\* too few pitch values: silence, an empty file, a short voiced clip
ShortBuffers ==
    { Buf(44100, <<>>, <<>>, FALSE, 50, PlainQ),
      Buf(0,     <<>>, <<>>, FALSE, 50, PlainQ),
      Buf(44100, <<>>, <<>>, TRUE,  50, PlainQ),
      Buf(44100, Flat(MinPitchCount - 1, 220), <<Hz(218), Hz(220), Hz(222)>>, FALSE, 50, PlainQ),
      Buf(44100, Flat(3, 300), <<Hz(3000)>>, FALSE, 50, PlainQ),
      Buf(44100, Flat(3, 300), <<Hz(346), Hz(348)>>, FALSE, 50, PlainQ) }

\* the buffers on which a stage is also made to raise
FaultBuffers ==
    { Buf(66150, Shaped(MaxLen, 200, 3), <<>>, FALSE, 50, PlainQ),
      Buf(44100, Flat(MinPitchCount - 1, 220), <<Hz(218), Hz(220), Hz(222)>>, FALSE, 50, PlainQ) }

\* the buffers on which one calculator's try block is also made to raise
ErrBuffers ==
    { Buf(66150, Shaped(MaxLen, 200, 3), <<>>, FALSE, 100, PlainQ),
      Buf(44100, Flat(MinPitchCount, 449), <<>>, FALSE, 100, PlainQ),
      Buf(66150, Shaped(20, 200, 1), <<>>, FALSE, 100, PlainQ) }

HintHz == {-5, 0, 60, 220, 295, 345, 500, 900}
Hints  == {NoHint, NaNHint} \cup {Num(Hz(h)) : h \in HintHz}

Arg(p, h, f, fault, err) ==
    [path |-> p, hint |-> h, file |-> f, fault |-> fault, err |-> err]

Faults == {"extract", "calculate", "validate"}
Errs   == {"harmonic", "vibrato", "jitter", "shimmer", "shimmer_both",
           "dynamics", "voice_type"}

Inputs ==
    {Arg(p, h, <<>>, "none", "none") : p \in {"null", "empty", "undecodable"}, h \in Hints}
    \cup {Arg("ok", h, <<b>>, "none", "none") :
            h \in Hints, b \in FlatBuffers \cup VoicedBuffers \cup ShortBuffers}
    \cup {Arg("ok", h, <<b>>, "none", "none") :
            h \in {NoHint, Num(Hz(220))}, b \in DynamicsBuffers}
    \cup {Arg("ok", NoHint, <<b>>, "none", "none") : b \in LongBuffers}
    \cup {Arg("ok", h, <<b>>, f, "none") : h \in Hints, b \in FaultBuffers, f \in Faults}
    \cup {Arg("ok", h, <<b>>, "none", e) : h \in Hints, b \in ErrBuffers, e \in Errs}

\* the inputs of the two-invocation specification
PairInputs ==
    {Arg("undecodable", NaNHint, <<>>, "none", "none")}
    \cup {Arg("ok", h, <<b>>, "none", "none") :
            h \in {NoHint, Num(Hz(220))},
            b \in { Buf(66150, Shaped(MaxLen, 200, 3), <<>>, FALSE, 50, PlainQ),
                    Buf(44100, Flat(MinPitchCount, 1500), <<>>, FALSE, 50, PlainQ) }}
    \cup {Arg("ok", Num(Hz(220)), <<Buf(44100, <<>>, <<>>, FALSE, 50, PlainQ)>>,
              "none", "none")}

(***************************************************************************)
(* analyze_audio_file, one action per stage                                *)
(***************************************************************************)
\* no endpoint request is behind a direct call of analyze_audio_file
NoRequest ==
    [at |-> "direct", tmp |-> "none", exc |-> "none", saved |-> FALSE, status |-> 0]

Fields ==
    {"mean_pitch", "vibrato_rate", "jitter", "shimmer", "dynamics",
     "voice_type", "lowest_note", "highest_note"}

InitOf(I, Args) ==
    /\ in \in [I -> Args]
    /\ pc = [r \in I |-> "call"]
    /\ pitch_values = [r \in I |-> <<>>]
    /\ results = [r \in I |-> <<>>]
    /\ ret = [r \in I |-> <<>>]
    /\ via = [r \in I |-> "none"]
    /\ log = [r \in I |-> <<>>]
    /\ rng = 0
    /\ http = [r \in I |-> NoRequest]

Init == InitOf({1}, Inputs)

InitPair == InitOf({1, 2}, PairInputs)

Goto(r, label, stage) ==
    /\ pc' = [pc EXCEPT ![r] = label]
    /\ log' = [log EXCEPT ![r] = Append(@, stage)]
    /\ UNCHANGED http

\* a load that checks its argument first and fails fast
LoadFailFast(r) ==
    /\ pc[r] = "call"
    /\ IF in[r].path = "ok"
       THEN Goto(r, "loaded", "decode")
       ELSE IF in[r].path \in {"null", "empty"}
       THEN Goto(r, "raised", "decode")
       ELSE Goto(r, "except", "decode")
    /\ UNCHANGED <<in, pitch_values, results, ret, via, rng>>

\* lines 41-43: librosa.load; a None, empty or undecodable path raises
Load(r) ==
    /\ pc[r] = "call"
    /\ IF in[r].path = "ok"
       THEN Goto(r, "loaded", "decode")
       ELSE Goto(r, "except", "decode")
    /\ UNCHANGED <<in, pitch_values, results, ret, via, rng>>

\* a preprocessing that may be run again on its own output
PreprocessAgain(r) ==
    /\ pc[r] \in {"loaded", "preprocessed"}
    /\ Len(log[r]) < 3
    /\ Goto(r, "preprocessed", "preprocess")
    /\ UNCHANGED <<in, pitch_values, results, ret, via, rng>>

\* line 46: _preprocess_audio catches its own errors
Preprocess(r) ==
    /\ pc[r] = "loaded"
    /\ Goto(r, "preprocessed", "preprocess")
    /\ UNCHANGED <<in, pitch_values, results, ret, via, rng>>

\* an extraction that gives up when a calculator is going to fail
ExtractPitchAbortsOnError(r) ==
    /\ pc[r] = "preprocessed"
    /\ IF in[r].fault = "extract" \/ in[r].err # "none"
       THEN /\ Goto(r, "except", "extract")
            /\ UNCHANGED pitch_values
       ELSE /\ Goto(r, "extracted", "extract")
            /\ pitch_values' = [pitch_values EXCEPT ![r] = in[r].file[1].pitches]
    /\ UNCHANGED <<in, results, ret, via, rng>>

\* line 49: _extract_pitch_advanced
ExtractPitch(r) ==
    /\ pc[r] = "preprocessed"
    /\ IF in[r].fault = "extract"
       THEN /\ Goto(r, "except", "extract")
            /\ UNCHANGED pitch_values
       ELSE /\ Goto(r, "extracted", "extract")
            /\ pitch_values' = [pitch_values EXCEPT ![r] = in[r].file[1].pitches]
    /\ UNCHANGED <<in, results, ret, via, rng>>

\* a fallback record that is passed through the Validator
InsufficientPitchValidated(r) ==
    /\ pc[r] = "extracted"
    /\ Len(pitch_values[r]) < MinPitchCount
    /\ \E draw \in Draws :
          LET out == _enhanced_fallback_analysis(in[r].hint, in[r].file, draw)
          IN  IF out = <<>>
              THEN /\ Goto(r, "except", "fallback")
                   /\ UNCHANGED <<ret, via>>
              ELSE /\ Goto(r, "done", "fallback")
                   /\ ret' = [ret EXCEPT ![r] =
                            <<_validate_and_refine_results(out[1], in[r].hint)>>]
                   /\ via' = [via EXCEPT ![r] = "fallback"]
    /\ rng' = rng + RandomCalls(in[r].hint, in[r].file)
    /\ UNCHANGED <<in, pitch_values, results>>

\* lines 51-53: too little pitch data, fallback with the decoded audio
InsufficientPitch(r) ==
    /\ pc[r] = "extracted"
    /\ Len(pitch_values[r]) < MinPitchCount
    /\ \E draw \in Draws :
          LET out == _enhanced_fallback_analysis(in[r].hint, in[r].file, draw)
          IN  IF out = <<>>
              THEN /\ Goto(r, "except", "fallback")
                   /\ UNCHANGED <<ret, via>>
              ELSE /\ Goto(r, "done", "fallback")
                   /\ ret' = [ret EXCEPT ![r] = out]
                   /\ via' = [via EXCEPT ![r] = "fallback"]
    /\ rng' = rng + RandomCalls(in[r].hint, in[r].file)
    /\ UNCHANGED <<in, pitch_values, results>>

\* calculators that leave their output in an attribute of the instance,
\* where every invocation in progress finds it
CalculateShared(r) ==
    /\ pc[r] = "extracted"
    /\ Len(pitch_values[r]) >= MinPitchCount
    /\ IF in[r].fault = "calculate"
       THEN /\ Goto(r, "except", "calculate")
            /\ UNCHANGED results
       ELSE /\ Goto(r, "calculated", "calculate")
            /\ results' = [t \in DOMAIN results |->
                    <<Calculators(pitch_values[r], in[r].file[1].q @@ in[r].file[1],
                                  in[r].err)>>]
    /\ UNCHANGED <<in, pitch_values, ret, via, rng>>

\* lines 55-71: harmonic features and the calculators
Calculate(r) ==
    /\ pc[r] = "extracted"
    /\ Len(pitch_values[r]) >= MinPitchCount
    /\ IF in[r].fault = "calculate"
       THEN /\ Goto(r, "except", "calculate")
            /\ UNCHANGED results
       ELSE /\ Goto(r, "calculated", "calculate")
            /\ results' = [results EXCEPT ![r] =
                    <<Calculators(pitch_values[r], in[r].file[1].q @@ in[r].file[1],
                                  in[r].err)>>]
    /\ UNCHANGED <<in, pitch_values, ret, via, rng>>

\* a validator that re-rolls the dynamics label with random.choice
ValidateRerollsDynamics(r) ==
    /\ pc[r] = "calculated"
    /\ \E d \in {"stable", "controlled", "variable"} :
          /\ Goto(r, "done", "validate")
          /\ ret' = [ret EXCEPT ![r] =
                  <<[_validate_and_refine_results(results[r][1], in[r].hint)
                        EXCEPT !.dynamics = d]>>]
          /\ via' = [via EXCEPT ![r] = "measured"]
    /\ UNCHANGED <<in, pitch_values, results, rng>>

\* lines 73-77: validate, refine and return
Validate(r) ==
    /\ pc[r] = "calculated"
    /\ IF in[r].fault = "validate"
       THEN /\ Goto(r, "except", "validate")
            /\ UNCHANGED <<ret, via>>
       ELSE /\ Goto(r, "done", "validate")
            /\ ret' = [ret EXCEPT ![r] =
                    <<_validate_and_refine_results(results[r][1], in[r].hint)>>]
            /\ via' = [via EXCEPT ![r] = "measured"]
    /\ UNCHANGED <<in, pitch_values, results, rng>>

\* an except handler that returns the calculators' record when a later
\* stage raised
HandleExceptionKeepsResults(r) ==
    /\ pc[r] = "except"
    /\ IF results[r] # <<>>
       THEN /\ Goto(r, "done", "fallback")
            /\ ret' = [ret EXCEPT ![r] = results[r]]
            /\ via' = [via EXCEPT ![r] = "measured"]
            /\ UNCHANGED rng
       ELSE /\ \E draw \in Draws :
                  LET out == _enhanced_fallback_analysis(in[r].hint, <<>>, draw)
                  IN  IF out = <<>>
                      THEN /\ Goto(r, "raised", "fallback")
                           /\ UNCHANGED <<ret, via>>
                      ELSE /\ Goto(r, "done", "fallback")
                           /\ ret' = [ret EXCEPT ![r] = out]
                           /\ via' = [via EXCEPT ![r] = "fallback"]
            /\ rng' = rng + RandomCalls(in[r].hint, <<>>)
    /\ UNCHANGED <<in, pitch_values, results>>

\* lines 79-81: except Exception, fallback without audio; what the
\* fallback raises here leaves analyze_audio_file
HandleException(r) ==
    /\ pc[r] = "except"
    /\ \E draw \in Draws :
          LET out == _enhanced_fallback_analysis(in[r].hint, <<>>, draw)
          IN  IF out = <<>>
              THEN /\ Goto(r, "raised", "fallback")
                   /\ UNCHANGED <<ret, via>>
              ELSE /\ Goto(r, "done", "fallback")
                   /\ ret' = [ret EXCEPT ![r] = out]
                   /\ via' = [via EXCEPT ![r] = "fallback"]
    /\ rng' = rng + RandomCalls(in[r].hint, <<>>)
    /\ UNCHANGED <<in, pitch_values, results>>

Next ==
    \/ \E r \in DOMAIN pc : Load(r)
    \/ \E r \in DOMAIN pc : Preprocess(r)
    \/ \E r \in DOMAIN pc : ExtractPitch(r)
    \/ \E r \in DOMAIN pc : InsufficientPitch(r)
    \/ \E r \in DOMAIN pc : Calculate(r)
    \/ \E r \in DOMAIN pc : Validate(r)
    \/ \E r \in DOMAIN pc : HandleException(r)

Spec == Init /\ [][Next]_vars

\* two invocations on the one VoiceAnalyzer instance, interleaved
SpecPair == InitPair /\ [][Next]_vars

(***************************************************************************)
(* _calculate_robust_mean_pitch called on its own, on series of every      *)
(* length up to MaxLen                                                     *)
(***************************************************************************)
MeanSeries ==
    {Shaped(n, f, scale) : n \in 1..MaxLen, f \in {100, 220, 440}, scale \in {1, 3}}

InitMean ==
    /\ in = [r \in {1} |-> Arg("ok", NoHint, <<>>, "none", "none")]
    /\ pc = [r \in {1} |-> "mean_call"]
    /\ pitch_values \in [{1} -> MeanSeries]
    /\ results = [r \in {1} |-> <<>>]
    /\ ret = [r \in {1} |-> <<>>]
    /\ via = [r \in {1} |-> "none"]
    /\ log = [r \in {1} |-> <<>>]
    /\ rng = 0
    /\ http = [r \in {1} |-> NoRequest]

RobustMean(r) ==
    /\ pc[r] = "mean_call"
    /\ pc' = [pc EXCEPT ![r] = "mean_done"]
    /\ results' = [results EXCEPT ![r] =
            <<[mean_pitch |-> _calculate_robust_mean_pitch(pitch_values[r])]>>]
    /\ UNCHANGED <<in, pitch_values, ret, via, log, rng, http>>

NextMean == \E r \in DOMAIN pc : RobustMean(r)

SpecMean == InitMean /\ [][NextMean]_vars

(***************************************************************************)
(* _extract_pitch_advanced called on its own.  A track is what the three   *)
(* librosa trackers return on one recording: pyin's frames (f0 is NaN on   *)
(* an unvoiced frame, prob is voiced_probs in hundredths), the piptrack    *)
(* matrix of the harmonic part and the piptrack matrix of the plain        *)
(* signal, each matrix a sequence of columns of bins (pitch 0: no peak in  *)
(* the bin); raises tells whether the try block of line 102 raises.        *)
(***************************************************************************)
Frame(f0, voiced, prob) == [f0 |-> f0, voiced |-> voiced, prob |-> prob]

Bin(pitch, mag) == [pitch |-> pitch, mag |-> mag]

RECURSIVE Flatten(_)
Flatten(ss) == IF ss = <<>> THEN <<>> ELSE Head(ss) \o Flatten(Tail(ss))

\* lines 113-115: f0[(voiced_flag) & (voiced_probs > 0.9)] without its NaN
ConfidentPitches(frames) ==
    LET confident == SelectSeq(frames, LAMBDA f : f.voiced /\ f.prob > 90)
        numbers   == SelectSeq(confident, LAMBDA f : f.f0.kind # "nan")
    IN  [i \in 1..Len(numbers) |-> numbers[i].f0.val]

RECURSIVE InsertByMag(_, _)
InsertByMag(b, col) ==
    IF col = <<>> THEN <<b>>
    ELSE IF b.mag < Head(col).mag THEN <<b>> \o col
    ELSE <<Head(col)>> \o InsertByMag(b, Tail(col))

RECURSIVE SortByMag(_)
SortByMag(col) ==
    IF col = <<>> THEN <<>> ELSE InsertByMag(Head(col), SortByMag(Tail(col)))

\* line 132: the bins at np.argsort(magnitudes[:, t])[-3:]
Top3(col) ==
    LET sorted == SortByMag(col)
        n      == Len(sorted)
    IN  IF n <= 3 THEN sorted ELSE Slice(sorted, n - 3, n)

\* lines 130-137: strong candidates of every frame
StrongPitches(matrix) ==
    LET bins == Flatten(matrix)
        p75  == Percentile([i \in 1..Len(bins) |-> bins[i].mag], 75)
        kept == [t \in 1..Len(matrix) |->
                    SelectSeq(Top3(matrix[t]), LAMBDA b : b.pitch > 0 /\ b.mag > p75)]
        all  == Flatten(kept)
    IN  [i \in 1..Len(all) |-> all[i].pitch]

\* lines 139-146: outliers by the interquartile range
RemoveOutliers(pitch_results) ==
    IF pitch_results = <<>> THEN <<>>
    ELSE LET q1  == Percentile(pitch_results, 25)
             q3  == Percentile(pitch_results, 75)
             iqr == q3 - q1
             lower_bound == q1 - (3 * iqr) \div 2
             upper_bound == q3 + (3 * iqr) \div 2
         IN  SelectSeq(pitch_results, LAMBDA x : x >= lower_bound /\ x <= upper_bound)

\* line 156, magnitudes[:, t].argmax(): the first of the largest
ArgMax(col) ==
    CHOOSE i \in 1..Len(col) :
        /\ \A j \in 1..Len(col) : col[j].mag <= col[i].mag
        /\ \A j \in 1..(i - 1) : col[j].mag < col[i].mag

\* a simple tracker that keeps the frames without a peak
SimpleTrackKeepsSilence(matrix) ==
    [t \in 1..Len(matrix) |-> matrix[t][ArgMax(matrix[t])].pitch]

\* lines 153-160: the strongest bin of every frame
SimpleTrack(matrix) ==
    Flatten([t \in 1..Len(matrix) |->
                LET pitch == matrix[t][ArgMax(matrix[t])].pitch
                IN  IF pitch > 0 THEN <<pitch>> ELSE <<>>])

_extract_pitch_advanced(track) ==
    IF track.raises
    THEN SimpleTrack(track.simple)
    ELSE RemoveOutliers(ConfidentPitches(track.pyin) \o StrongPitches(track.pip))

\* pyin with fmin = C2 (65.41 Hz) and fmax = C7 (2093 Hz)
PyinTracks ==
    { <<Frame(Num(6541), TRUE, 95), Frame(Num(22000), TRUE, 99),
        Frame(NaNHint, FALSE, 10), Frame(Num(209300), TRUE, 92)>>,
      <<Frame(Num(22000), TRUE, 95), Frame(Num(22100), TRUE, 85),
        Frame(NaNHint, FALSE, 0)>>,
      <<Frame(NaNHint, FALSE, 5), Frame(NaNHint, FALSE, 5)>>,
      <<Frame(Num(44000), TRUE, 95), Frame(Num(44100), TRUE, 96),
        Frame(Num(43900), TRUE, 97), Frame(Num(200000), TRUE, 91)>> }

\* piptrack with fmin = 80 and fmax = 2000
PipTracks ==
    { << <<Bin(0, 0), Bin(22000, 50), Bin(44000, 20), Bin(66000, 5)>>,
         <<Bin(0, 0), Bin(0, 0), Bin(22100, 40), Bin(0, 0)>> >>,
      << <<Bin(0, 0), Bin(0, 0), Bin(0, 0)>> >>,
      << <<Bin(8000, 30), Bin(200000, 60), Bin(0, 0), Bin(0, 0)>>,
         <<Bin(0, 0), Bin(8100, 35), Bin(0, 0), Bin(0, 0)>> >>,
      << <<Bin(44000, 10), Bin(0, 0), Bin(0, 0), Bin(0, 0)>>,
         <<Bin(44200, 10), Bin(0, 0), Bin(0, 0), Bin(0, 0)>>,
         <<Bin(0, 0), Bin(0, 0), Bin(88000, 3), Bin(0, 0)>> >> }

\* piptrack with the defaults of the library, fmin = 150 and fmax = 4000
SimpleTracks ==
    { << <<Bin(0, 0), Bin(22000, 50)>>, <<Bin(0, 0), Bin(0, 0)>>,
         <<Bin(300000, 70), Bin(22000, 10)>> >>,
      << <<Bin(15000, 10), Bin(0, 0)>>, <<Bin(400000, 9), Bin(0, 0)>> >>,
      << <<Bin(0, 0), Bin(0, 0)>>, <<Bin(0, 0), Bin(0, 0)>> >>,
      << <<Bin(22000, 50), Bin(44000, 20)>>, <<Bin(22100, 40), Bin(0, 0)>> >> }

Tracks ==
    {[pyin |-> f, pip |-> m, simple |-> s, raises |-> x] :
        f \in PyinTracks, m \in PipTracks, s \in SimpleTracks, x \in BOOLEAN}

InitExtract ==
    /\ in \in [{1} -> {Arg("ok", NoHint, <<t>>, "none", "none") : t \in Tracks}]
    /\ pc = [r \in {1} |-> "extract_call"]
    /\ pitch_values = [r \in {1} |-> <<>>]
    /\ results = [r \in {1} |-> <<>>]
    /\ ret = [r \in {1} |-> <<>>]
    /\ via = [r \in {1} |-> "none"]
    /\ log = [r \in {1} |-> <<>>]
    /\ rng = 0
    /\ http = [r \in {1} |-> NoRequest]

ExtractAdvanced(r) ==
    /\ pc[r] = "extract_call"
    /\ pc' = [pc EXCEPT ![r] = "extract_done"]
    /\ pitch_values' = [pitch_values EXCEPT ![r] = _extract_pitch_advanced(in[r].file[1])]
    /\ UNCHANGED <<in, results, ret, via, log, rng, http>>

NextExtract == \E r \in DOMAIN pc : ExtractAdvanced(r)

SpecExtract == InitExtract /\ [][NextExtract]_vars

(***************************************************************************)
(* The four numeric calculators and the Validator's clamps called on their *)
(* own, on series of every length from 1 and every profile of the          *)
(* numerical results                                                       *)
(***************************************************************************)
MetricErrs == {"none", "jitter", "shimmer", "shimmer_both"}

MetricArgs ==
    {Arg("ok", NoHint, <<Buf(44100, <<>>, <<>>, FALSE, 50, q)>>, "none", e) :
        q \in Qualities, e \in MetricErrs}

InitMetric ==
    /\ in \in [{1} -> MetricArgs]
    /\ pc = [r \in {1} |-> "metric_call"]
    /\ pitch_values \in [{1} -> {Shaped(n, 220, 1) : n \in 1..MaxLen}]
    /\ results = [r \in {1} |-> <<>>]
    /\ ret = [r \in {1} |-> <<>>]
    /\ via = [r \in {1} |-> "none"]
    /\ log = [r \in {1} |-> <<>>]
    /\ rng = 0
    /\ http = [r \in {1} |-> NoRequest]

\* lines 63-66 of analyze_audio_file
MetricCalculators(r) ==
    /\ pc[r] = "metric_call"
    /\ pc' = [pc EXCEPT ![r] = "metric_done"]
    /\ LET pv  == pitch_values[r]
           q   == in[r].file[1].q
           err == in[r].err
       IN  results' = [results EXCEPT ![r] =
            <<[ mean_pitch   |-> _calculate_robust_mean_pitch(pv),
                vibrato_rate |-> _calculate_vibrato_rate_advanced(pv, q, err),
                jitter       |-> _calculate_jitter_advanced(pv, q, err),
                shimmer      |-> _calculate_shimmer_advanced(q, err) ]>>]
    /\ UNCHANGED <<in, pitch_values, ret, via, log, rng, http>>

\* lines 521-524 of _validate_and_refine_results
MetricClamps(r) ==
    /\ pc[r] = "metric_done"
    /\ pc' = [pc EXCEPT ![r] = "metric_clamped"]
    /\ ret' = [ret EXCEPT ![r] = <<ClampMetrics(results[r][1])>>]
    /\ UNCHANGED <<in, pitch_values, results, via, log, rng, http>>

NextMetric ==
    \/ \E r \in DOMAIN pc : MetricCalculators(r)
    \/ \E r \in DOMAIN pc : MetricClamps(r)

SpecMetric == InitMetric /\ [][NextMetric]_vars

(***************************************************************************)
(* The upload endpoints of backend/main.py, analyze_voice and              *)
(* generate_vocal_feedback.  A file name is the sequence of its            *)
(* characters.  http[r].tmp follows the temporary file on disk and         *)
(* http[r].exc the exception in flight.                                    *)
(***************************************************************************)
Chars(w) ==
    CASE w = "a.wav"  -> <<"a", ".", "w", "a", "v">>
      [] w = "a.WAV"  -> <<"a", ".", "W", "A", "V">>
      [] w = "a.mp3"  -> <<"a", ".", "m", "p", "3">>
      [] w = "a.m4a"  -> <<"a", ".", "m", "4", "a">>
      [] w = "a.webm" -> <<"a", ".", "w", "e", "b", "m">>
      [] w = "t.txt"  -> <<"t", ".", "t", "x", "t">>
      [] w = "a.mp4"  -> <<"a", ".", "m", "p", "4">>
      [] w = "awav"   -> <<"a", "w", "a", "v">>
      [] w = "a.wav.txt" -> <<"a", ".", "w", "a", "v", ".", "t", "x", "t">>
      [] w = ".wav"   -> <<".", "w", "a", "v">>
      [] w = ".mp3"   -> <<".", "m", "p", "3">>
      [] w = ".m4a"   -> <<".", "m", "4", "a">>
      [] w = ".webm"  -> <<".", "w", "e", "b", "m">>
      [] OTHER        -> <<>>

\* str.lower on one character
LowerChar(c) ==
    CASE c = "W" -> "w" [] c = "A" -> "a" [] c = "V" -> "v" [] OTHER -> c

lower(name) == [i \in 1..Len(name) |-> LowerChar(name[i])]

endswith(name, suffix) ==
    /\ Len(suffix) <= Len(name)
    /\ SubSeq(name, Len(name) - Len(suffix) + 1, Len(name)) = suffix

\* lines 154 and 939: filename.lower().endswith(('.wav', '.mp3', '.m4a', '.webm'))
SupportedFormat(filename) ==
    \E w \in {".wav", ".mp3", ".m4a", ".webm"} : endswith(lower(filename), Chars(w))

\* io names the step of the upload that raises; db is "off" when the
\* supabase client is not configured
Request(endpoint, filename, io, user_id, db) ==
    [endpoint |-> endpoint, filename |-> Chars(filename), io |-> io,
     user_id |-> user_id, db |-> db]

Filenames ==
    {"a.wav", "a.WAV", "a.mp3", "a.m4a", "a.webm", "t.txt", "a.mp4", "awav",
     "a.wav.txt", ".wav"}

Requests(endpoint) ==
    {Request(endpoint, f, "ok", FALSE, "off") : f \in Filenames}
    \cup {Request(endpoint, "a.wav", io, u, db) :
            io \in {"ok", "create", "read", "write"}, u \in BOOLEAN,
            db \in {"ok", "raises", "off"}}

\* what the uploaded bytes are to the analyzer
Uploads ==
    { [path |-> "undecodable", file |-> <<>>],
      [path |-> "ok", file |-> <<Buf(44100, <<>>, <<>>, FALSE, 50, PlainQ)>>],
      [path |-> "ok", file |-> <<Buf(66150, Shaped(MaxLen, 200, 3), <<>>, FALSE, 50, PlainQ)>>] }

\* line 166 passes the form field mean_pitch on, line 951 passes no hint
ApiInputs ==
    {Arg(u.path, h, u.file, "none", "none") @@ [req |-> q] :
        u \in Uploads, h \in {NoHint, NaNHint, Num(Hz(220))},
        q \in Requests("/analyze-voice")}
    \cup {Arg(u.path, NoHint, u.file, "none", "none") @@ [req |-> q] :
        u \in Uploads, q \in Requests("/api/vocal-feedback")}

InitApi ==
    /\ in \in [{1} -> ApiInputs]
    /\ pc = [r \in {1} |-> "idle"]
    /\ pitch_values = [r \in {1} |-> <<>>]
    /\ results = [r \in {1} |-> <<>>]
    /\ ret = [r \in {1} |-> <<>>]
    /\ via = [r \in {1} |-> "none"]
    /\ log = [r \in {1} |-> <<>>]
    /\ rng = 0
    /\ http = [r \in {1} |-> [NoRequest EXCEPT !.at = "received"]]

Analyzer == <<pc, pitch_values, results, ret, via, log, rng>>

\* lines 153-155 and 938-940: the file type check; its HTTPException is
\* raised inside the outer try
ValidateFileType(r) ==
    /\ http[r].at = "received"
    /\ IF SupportedFormat(in[r].req.filename)
       THEN http' = [http EXCEPT ![r].at = "validated"]
       ELSE http' = [http EXCEPT ![r].at = "except", ![r].exc = "HTTPException(400)"]
    /\ UNCHANGED <<in, Analyzer>>

\* lines 158 and 943: tempfile.NamedTemporaryFile(delete=False, ...)
CreateTempFile(r) ==
    /\ http[r].at = "validated"
    /\ IF in[r].req.io = "create"
       THEN http' = [http EXCEPT ![r].at = "except", ![r].exc = "Exception"]
       ELSE http' = [http EXCEPT ![r].at = "created", ![r].tmp = "exists"]
    /\ UNCHANGED <<in, Analyzer>>

\* lines 159-162 and 944-946: read the upload and write it; leaving the
\* with block closes the file and, with delete=False, keeps it
WriteUpload(r) ==
    /\ http[r].at = "created"
    /\ IF in[r].req.io \in {"read", "write"}
       THEN http' = [http EXCEPT ![r].at = "except", ![r].exc = "Exception"]
       ELSE http' = [http EXCEPT ![r].at = "written"]
    /\ UNCHANGED <<in, Analyzer>>

\* lines 164-167 and 948-951: the inner try calls analyze_audio_file
CallAnalyzer(r) ==
    /\ http[r].at = "written"
    /\ pc[r] = "idle"
    /\ pc' = [pc EXCEPT ![r] = "call"]
    /\ http' = [http EXCEPT ![r].at = "analyzing"]
    /\ UNCHANGED <<in, pitch_values, results, ret, via, log, rng>>

\* lines 172-208 and 953-993: the insert runs for a user id with a
\* configured client, what it raises is logged and dropped, and the
\* response is returned
Persist(r) ==
    /\ http[r].at = "analyzing"
    /\ pc[r] = "done"
    /\ http' = [http EXCEPT ![r].at = "finally",
                            ![r].saved = in[r].req.user_id /\ in[r].req.db = "ok"]
    /\ UNCHANGED <<in, Analyzer>>

\* lines 167 and 951: an exception of analyze_audio_file leaves the inner try
AnalysisRaised(r) ==
    /\ http[r].at = "analyzing"
    /\ pc[r] = "raised"
    /\ http' = [http EXCEPT ![r].at = "finally", ![r].exc = "Exception"]
    /\ UNCHANGED <<in, Analyzer>>

\* lines 211-215 and 995-999: finally unlinks the file, then the response
\* goes out or the exception goes on to the outer except
Finally(r) ==
    /\ http[r].at = "finally"
    /\ IF http[r].exc = "none"
       THEN http' = [http EXCEPT ![r].at = "responded", ![r].tmp = "deleted",
                                 ![r].status = 200]
       ELSE http' = [http EXCEPT ![r].at = "except", ![r].tmp = "deleted"]
    /\ UNCHANGED <<in, Analyzer>>

\* lines 217-219 and 1001-1003: except Exception answers 500, whatever
\* was raised inside the try
OuterExcept(r) ==
    /\ http[r].at = "except"
    /\ http' = [http EXCEPT ![r].at = "responded", ![r].status = 500]
    /\ UNCHANGED <<in, Analyzer>>

NextApi ==
    \/ \E r \in DOMAIN pc : ValidateFileType(r)
    \/ \E r \in DOMAIN pc : CreateTempFile(r)
    \/ \E r \in DOMAIN pc : WriteUpload(r)
    \/ \E r \in DOMAIN pc : CallAnalyzer(r)
    \/ \E r \in DOMAIN pc : Load(r)
    \/ \E r \in DOMAIN pc : Preprocess(r)
    \/ \E r \in DOMAIN pc : ExtractPitch(r)
    \/ \E r \in DOMAIN pc : InsufficientPitch(r)
    \/ \E r \in DOMAIN pc : Calculate(r)
    \/ \E r \in DOMAIN pc : Validate(r)
    \/ \E r \in DOMAIN pc : HandleException(r)
    \/ \E r \in DOMAIN pc : Persist(r)
    \/ \E r \in DOMAIN pc : AnalysisRaised(r)
    \/ \E r \in DOMAIN pc : Finally(r)
    \/ \E r \in DOMAIN pc : OuterExcept(r)

SpecApi == InitApi /\ [][NextApi]_vars

(***************************************************************************)
(* Properties                                                              *)
(***************************************************************************)
Invocations == DOMAIN pc

Returned(r) == pc[r] = "done"

Rec(r) == ret[r][1]

\* C1: whatever the input and whichever stage fails, analyze_audio_file
\* returns a record with all eight fields and no exception reaches the
\* caller.
C1_AlwaysReturnsCompleteRecord ==
    \A r \in Invocations :
        /\ pc[r] # "raised"
        /\ Returned(r) => (Len(ret[r]) = 1 /\ DOMAIN Rec(r) = Fields)

\* C2: every returned record, measured or fallback, has
\* 80 <= mean_pitch <= 800, 0 <= vibrato_rate <= 10,
\* 0.001 <= jitter <= 0.05 and 0.005 <= shimmer <= 0.06.
C2_MetricRanges ==
    \A r \in Invocations :
        Returned(r) =>
            /\ Hz(80) <= Rec(r).mean_pitch /\ Rec(r).mean_pitch <= Hz(800)
            /\ 0 <= Rec(r).vibrato_rate /\ Rec(r).vibrato_rate <= 1000
            /\ 1000 <= Rec(r).jitter /\ Rec(r).jitter <= 50000
            /\ 5000 <= Rec(r).shimmer /\ Rec(r).shimmer <= 60000

\* a measured record whose computed mean pitch was above 800 Hz
C2_Witness ==
    \E r \in Invocations :
        /\ Returned(r) /\ via[r] = "measured"
        /\ results[r][1].mean_pitch > Hz(800)
        /\ in[r].hint = NoHint

\* C3: in every returned record, for any hint,
\* frequency(highest_note) >= 1.5 x frequency(lowest_note).
C3_NoteSpan ==
    \A r \in Invocations :
        Returned(r) =>
            2 * note_to_hz(Rec(r).highest_note) >= 3 * note_to_hz(Rec(r).lowest_note)

\* C4 as stated: dynamics is one of stable, controlled, variable,
\* expressive, highly_expressive and voice_type one of bass, bass_baritone,
\* baritone, tenor, alto, mezzo_soprano, soprano.
C4_EnumsAsStated ==
    \A r \in Invocations :
        Returned(r) =>
            /\ Rec(r).dynamics \in
                 {"stable", "controlled", "variable", "expressive", "highly_expressive"}
            /\ Rec(r).voice_type \in
                 {"bass", "bass_baritone", "baritone", "tenor", "alto",
                  "mezzo_soprano", "soprano"}

\* C4 amended: on every path dynamics is one of stable, controlled,
\* variable, expressive, "highly expressive" and voice_type one of bass,
\* bass-baritone, baritone, tenor, alto, mezzo-soprano, soprano.
C4_Enums ==
    \A r \in Invocations :
        Returned(r) =>
            /\ Rec(r).dynamics \in
                 {"stable", "controlled", "variable", "expressive", "highly expressive"}
            /\ Rec(r).voice_type \in
                 {"bass", "bass-baritone", "baritone", "tenor", "alto",
                  "mezzo-soprano", "soprano"}

\* a measured record in the top dynamics bucket with a two-word voice type
C4_Witness ==
    \E r \in Invocations :
        /\ Returned(r) /\ via[r] = "measured"
        /\ Rec(r).dynamics = "highly expressive"
        /\ Rec(r).voice_type \in {"bass-baritone", "mezzo-soprano"}

Overridden(r) ==
    /\ Returned(r) /\ via[r] = "measured"
    /\ in[r].hint.kind = "num" /\ in[r].hint.val > 0
    /\ (results[r][1].mean_pitch < Hz(50) \/ results[r][1].mean_pitch > Hz(1000))

\* the simple threshold classification, as documented
ThresholdClass(p) ==
    IF p < Hz(250) THEN "bass"
    ELSE IF p < Hz(300) THEN "baritone"
    ELSE IF p < Hz(350) THEN "tenor"
    ELSE "alto"

\* C6 as stated: with a hint > 0 and a computed mean outside [50, 1000] Hz
\* the returned mean_pitch equals the hint and voice_type is the simple
\* threshold classification of the hint.
C6_HintOverrideAsStated ==
    \A r \in Invocations :
        Overridden(r) =>
            /\ Rec(r).mean_pitch = in[r].hint.val
            /\ Rec(r).voice_type = ThresholdClass(in[r].hint.val)

\* C6 amended: with a hint > 0 and a computed mean outside [50, 1000] Hz
\* the returned mean_pitch equals the hint clamped to [80, 800] Hz and
\* voice_type is the simple threshold classification of the hint itself.
C6_HintOverride ==
    \A r \in Invocations :
        Overridden(r) =>
            /\ Rec(r).mean_pitch =
                 (IF in[r].hint.val < Hz(80) THEN Hz(80)
                  ELSE IF in[r].hint.val > Hz(800) THEN Hz(800)
                  ELSE in[r].hint.val)
            /\ Rec(r).voice_type = ThresholdClass(in[r].hint.val)

\* an override by a 900 Hz hint, returned as 800 Hz
C6_Witness ==
    \E r \in Invocations :
        /\ Overridden(r)
        /\ in[r].hint.val = Hz(900)
        /\ Rec(r).mean_pitch = Hz(800)

\* C7 as stated: a hint of 220 Hz with a computed mean outside [50, 1000]
\* gives mean_pitch = 220 and voice_type = baritone.
C7_Hint220AsStated ==
    \A r \in Invocations :
        (Overridden(r) /\ in[r].hint.val = Hz(220)) =>
            /\ Rec(r).mean_pitch = Hz(220)
            /\ Rec(r).voice_type = "baritone"

\* C7 amended: a hint of 220 Hz with a computed mean outside [50, 1000]
\* gives mean_pitch = 220 and voice_type = bass (the simple classifier
\* puts every pitch below 250 Hz in the bass bucket).
C7_Hint220 ==
    \A r \in Invocations :
        (Overridden(r) /\ in[r].hint.val = Hz(220)) =>
            /\ Rec(r).mean_pitch = Hz(220)
            /\ Rec(r).voice_type = "bass"

\* an override by a 220 Hz hint of a series the classifier called soprano
C7_Witness ==
    \E r \in Invocations :
        /\ Overridden(r)
        /\ in[r].hint.val = Hz(220)
        /\ results[r][1].voice_type = "soprano"

\* a decodable all-zero buffer: no pitch value anywhere, no stage raising
Silent(r) ==
    /\ in[r].path = "ok"
    /\ in[r].fault = "none"
    /\ in[r].file[1].samples > 0
    /\ in[r].file[1].pitches = <<>>
    /\ in[r].file[1].quick = <<>>
    /\ ~in[r].file[1].quick_raises

HintClipped(h) ==
    IF h < Hz(250) THEN (IF h < Hz(85) THEN Hz(85) ELSE h)
    ELSE IF h < Hz(300) THEN (IF h > Hz(290) THEN Hz(290) ELSE h)
    ELSE IF h < Hz(350) THEN (IF h > Hz(340) THEN Hz(340) ELSE h)
    ELSE (IF h > Hz(440) THEN Hz(440) ELSE h)

NoPath(r) == in[r].path \in {"null", "empty"}

FlatNeutral(r) ==
    /\ results[r] # <<>>
    /\ in[r].err # "voice_type"
    /\ (in[r].file[1].bright = 50 \/ in[r].err = "harmonic")
    /\ \A i \in 1..Len(pitch_values[r]) : pitch_values[r][i] = pitch_values[r][1]

\* the buckets of the claim, in hertz
Bucket(p) ==
    IF p < 160 THEN "bass"
    ELSE IF p < 200 THEN "bass-baritone"
    ELSE IF p < 250 THEN "baritone"
    ELSE IF p < 300 THEN "tenor"
    ELSE IF p < 350 THEN "alto"
    ELSE IF p < 450 THEN "mezzo-soprano"
    ELSE "soprano"

\* C10: with neutral brightness a flat series at p Hz is classified bass
\* below 160, bass-baritone in [160, 200), baritone in [200, 250), tenor in
\* [250, 300), alto in [300, 350), mezzo-soprano in [350, 450) and soprano
\* from 450 up, so 159/161, 249/251, 299/301, 349/351 and 449/451 Hz fall
\* on either side of a threshold.
C10_VoiceTypeThresholds ==
    \A r \in Invocations :
        FlatNeutral(r) =>
            /\ pitch_values[r][1] % 100 = 0
            /\ results[r][1].voice_type = Bucket(pitch_values[r][1] \div 100)

\* a flat series exactly on the last threshold, classified soprano
C10_Witness ==
    \E r \in Invocations :
        /\ FlatNeutral(r)
        /\ pitch_values[r][1] = Hz(450)
        /\ results[r][1].voice_type = "soprano"

(***************************************************************************)
(* C11  The dynamics label is the bucket of the final score: boundaries at *)
(* 0.08, 0.15, 0.25 and 0.35, a score on a boundary in the higher bucket,  *)
(* so the label never goes down when the score goes up.                    *)
(***************************************************************************)
DynamicsRank(label) ==
    CASE label = "stable" -> 1
      [] label = "controlled" -> 2
      [] label = "variable" -> 3
      [] label = "expressive" -> 4
      [] label = "highly expressive" -> 5
      [] OTHER -> 0

Scored(r) == results[r] # <<>> /\ in[r].err # "dynamics"

FinalScore(r) == dynamics_score(pitch_values[r], in[r].file[1].q)

C11_DynamicsMonotone ==
    \A r \in Invocations :
        Scored(r) =>
            DynamicsRank(results[r][1].dynamics) =
                1 + Cardinality({b \in {800, 1500, 2500, 3500} : b <= FinalScore(r)})

C11_Witness ==
    \E r \in Invocations :
        /\ Scored(r)
        /\ FinalScore(r) = 1500
        /\ results[r][1].dynamics = "variable"

(***************************************************************************)
(* C12  A request whose file name does not end in .wav, .mp3, .m4a or      *)
(* .webm is answered with status 400 and never reaches the analyzer.       *)
(***************************************************************************)
Responded(r) == http[r].at = "responded"

C12_UnsupportedFormat400 ==
    \A r \in Invocations :
        ( /\ Responded(r)
          /\ in[r].req.endpoint = "/analyze-voice"
          /\ ~SupportedFormat(in[r].req.filename) ) =>
            (http[r].status = 400 /\ pc[r] = "idle")

(***************************************************************************)
(* C13  When a request has been answered, no temporary file it created is  *)
(* left on disk, whichever step failed.                                    *)
(***************************************************************************)
C13_TempFileDeleted ==
    \A r \in Invocations : Responded(r) => http[r].tmp # "exists"

(***************************************************************************)
(* C14  Two interleaved invocations on the one instance: a step of one     *)
(* leaves everything of the other as it was, an invocation on the measured *)
(* path returns what its own arguments give, and no step draws from a      *)
(* generator the other invocation has drawn from.                          *)
(***************************************************************************)
StepOf(r) == pc'[r] # pc[r]

OthersUntouched(r) ==
    \A t \in Invocations \ {r} :
        /\ in'[t] = in[t]
        /\ pc'[t] = pc[t]
        /\ pitch_values'[t] = pitch_values[t]
        /\ results'[t] = results[t]
        /\ ret'[t] = ret[t]
        /\ via'[t] = via[t]
        /\ log'[t] = log[t]

\* the invocation has returned what it returns on the measured path when
\* it runs alone
ReturnedAlone(r) ==
    \E c \in {Calculators(in[r].file[1].pitches, in[r].file[1].q @@ in[r].file[1],
                          in[r].err)} :
        ret[r] = <<_validate_and_refine_results(c, in[r].hint)>>

MeasuredAlone ==
    \A r \in Invocations : via[r] = "measured" => ReturnedAlone(r)

InFallback(r) == \E i \in DOMAIN log[r] : log[r][i] = "fallback"

C14_IndependentAsStated ==
    /\ []MeasuredAlone
    /\ [][\A r \in Invocations :
             StepOf(r) =>
                 /\ OthersUntouched(r)
                 /\ (rng' # rng => \A t \in Invocations \ {r} : ~InFallback(t))]_vars

(***************************************************************************)
(* C14 (amended)  As above, except that the generator of the random module *)
(* is shared: only a Fallback Generator call draws from it, whichever      *)
(* invocation has drawn before, and a measured invocation never does.      *)
(***************************************************************************)
C14_Independent ==
    /\ []MeasuredAlone
    /\ [][\A r \in Invocations :
             StepOf(r) =>
                 /\ OthersUntouched(r)
                 /\ (rng' # rng => (InFallback(r))' /\ via'[r] # "measured")]_vars

C14_Witness ==
    \E r, t \in Invocations :
        /\ via[r] = "measured"
        /\ ReturnedAlone(r)
        /\ via[t] = "fallback"
        /\ rng > 0
        /\ in[r].hint # in[t].hint

(***************************************************************************)
(* C15  A returned record comes from the Fallback Generator exactly when   *)
(* the extractor yielded fewer than 10 values or a stage raised; otherwise *)
(* it is the calculators' output passed through the Validator.             *)
(***************************************************************************)
StageRaised(r) ==
    \/ in[r].path # "ok"
    \/ in[r].fault = "extract"
    \/ in[r].fault \in {"calculate", "validate"} /\ Len(in[r].file[1].pitches) >= 10

TooFewValues(r) ==
    /\ in[r].path = "ok"
    /\ in[r].fault # "extract"
    /\ Len(in[r].file[1].pitches) < 10

C15_FallbackIff ==
    \A r \in Invocations :
        Returned(r) =>
            IF StageRaised(r) \/ TooFewValues(r)
            THEN via[r] = "fallback"
            ELSE /\ via[r] = "measured"
                 /\ Len(pitch_values[r]) >= 10
                 /\ ReturnedAlone(r)

C15_Witness ==
    \E r \in Invocations :
        /\ Returned(r)
        /\ via[r] = "fallback"
        /\ in[r].fault = "validate"
        /\ Len(pitch_values[r]) >= 10
        /\ results[r] # <<>>

(***************************************************************************)
(* C16  The working estimate of the Fallback Generator, seen in the record *)
(* it returns: voice type, clipped mean pitch and both notes are those of  *)
(* the estimate.  As stated, the estimate is the hint when one is given,   *)
(* even with audio at hand, else the quick estimate from the audio, else a *)
(* random value in [150, 400] Hz.                                          *)
(***************************************************************************)
FromFallback(r) == Returned(r) /\ via[r] = "fallback"

\* the fallback was called with the decoded audio and its quick estimate
\* of the first two seconds found a pitch
AudioYields(r) ==
    /\ TooFewValues(r)
    /\ in[r].file[1].samples > 0
    /\ ~in[r].file[1].quick_raises
    /\ in[r].file[1].quick # <<>>

BuiltOn(r, estimate) ==
    /\ Rec(r).voice_type = _simple_voice_type(estimate)
    /\ Rec(r).mean_pitch = HintClipped(estimate)
    /\ Rec(r).lowest_note = _frequency_to_note((estimate * 7) \div 10)
    /\ Rec(r).highest_note = _frequency_to_note((estimate * 18) \div 10)

BuiltOnRandom(r) ==
    \E k \in 0..RandSteps : BuiltOn(r, Hz(150) + (Hz(250) * k) \div RandSteps)

C16_HintFirstAsStated ==
    \A r \in Invocations :
        FromFallback(r) =>
            IF Positive(in[r].hint) THEN BuiltOn(r, in[r].hint.val)
            ELSE IF in[r].hint # NoHint THEN TRUE
            ELSE IF AudioYields(r) THEN BuiltOn(r, Median(in[r].file[1].quick))
            ELSE BuiltOnRandom(r)

(***************************************************************************)
(* C16 (amended)  The estimate is the quick estimate from the audio when   *)
(* audio is at hand and yields a pitch; else the hint when one is given    *)
(* and is not zero; else a random value in [150, 400] Hz.                  *)
(***************************************************************************)
C16_AudioFirst ==
    \A r \in Invocations :
        FromFallback(r) =>
            IF AudioYields(r) THEN BuiltOn(r, Median(in[r].file[1].quick))
            ELSE IF Truthy(in[r].hint) THEN BuiltOn(r, in[r].hint.val)
            ELSE BuiltOnRandom(r)

C16_Witness ==
    \E r \in Invocations :
        /\ FromFallback(r)
        /\ AudioYields(r)
        /\ in[r].hint = Num(Hz(500))
        /\ Median(in[r].file[1].quick) = Hz(220)
        /\ Rec(r).voice_type = "bass"

(***************************************************************************)
(* C17  On the measured path, when the highest note is below 1.5 times the *)
(* lowest, both notes become the default range of the record's voice type: *)
(* bass E2-E4, baritone G2-G4, tenor C3-C5, soprano C4-C6, alto and        *)
(* mezzo-soprano G3-G5; otherwise both notes stay as calculated.           *)
(***************************************************************************)
Measured(r) == Returned(r) /\ via[r] = "measured"

SpanFails(r) ==
    2 * note_to_hz(results[r][1].highest_note) < 3 * note_to_hz(results[r][1].lowest_note)

RangeIs(r, low, high) == Rec(r).lowest_note = low /\ Rec(r).highest_note = high

C17_DefaultRanges ==
    \A r \in Invocations :
        Measured(r) =>
            IF SpanFails(r)
            THEN /\ Rec(r).voice_type = "bass" => RangeIs(r, Note("E", 2), Note("E", 4))
                 /\ Rec(r).voice_type = "baritone" => RangeIs(r, Note("G", 2), Note("G", 4))
                 /\ Rec(r).voice_type = "tenor" => RangeIs(r, Note("C", 3), Note("C", 5))
                 /\ Rec(r).voice_type = "soprano" => RangeIs(r, Note("C", 4), Note("C", 6))
                 /\ Rec(r).voice_type \in {"alto", "mezzo-soprano"} =>
                        RangeIs(r, Note("G", 3), Note("G", 5))
            ELSE RangeIs(r, results[r][1].lowest_note, results[r][1].highest_note)

(***************************************************************************)
(* C18  On the measured path, when the computed mean lies in [50, 1000] Hz *)
(* or no hint above 0 is supplied, the hint is not used: the voice type is *)
(* the calculators', the mean pitch is the computed mean clamped to        *)
(* [80, 800] Hz and the record is the one returned without any hint.  The  *)
(* dynamics label is the calculators' in every case.                       *)
(***************************************************************************)
MeanPlausible(r) ==
    Hz(50) <= results[r][1].mean_pitch /\ results[r][1].mean_pitch <= Hz(1000)

C18_HintUnused ==
    \A r \in Invocations :
        Measured(r) =>
            /\ Rec(r).dynamics = results[r][1].dynamics
            /\ (MeanPlausible(r) \/ ~Positive(in[r].hint)) =>
                    /\ Rec(r).voice_type = results[r][1].voice_type
                    /\ Rec(r).mean_pitch =
                            (IF results[r][1].mean_pitch < Hz(80) THEN Hz(80)
                             ELSE IF results[r][1].mean_pitch > Hz(800) THEN Hz(800)
                             ELSE results[r][1].mean_pitch)
                    /\ ret[r] = <<_validate_and_refine_results(results[r][1], NoHint)>>

C18_Witness ==
    \E r \in Invocations :
        /\ Measured(r)
        /\ in[r].hint = Num(Hz(500))
        /\ results[r][1].mean_pitch = Hz(70)
        /\ results[r][1].voice_type = "bass"
        /\ Rec(r).mean_pitch = Hz(80)

(***************************************************************************)
(* C19  In every record of the Fallback Generator shimmer is above jitter, *)
(* rounding included, and jitter and vibrato rate lie in the range table   *)
(* entry of the record's voice type.                                       *)
(***************************************************************************)
Within(x, lo, hi) == lo <= x /\ x <= hi

C19_FallbackConsistent ==
    \A r \in Invocations :
        FromFallback(r) =>
            /\ Rec(r).shimmer > Rec(r).jitter
            /\ Rec(r).voice_type \in {"bass", "baritone", "tenor", "alto"}
            /\ Rec(r).voice_type = "bass" =>
                    Within(Rec(r).jitter, 8000, 20000) /\ Within(Rec(r).vibrato_rate, 350, 550)
            /\ Rec(r).voice_type = "baritone" =>
                    Within(Rec(r).jitter, 7000, 18000) /\ Within(Rec(r).vibrato_rate, 400, 600)
            /\ Rec(r).voice_type = "tenor" =>
                    Within(Rec(r).jitter, 6000, 16000) /\ Within(Rec(r).vibrato_rate, 450, 650)
            /\ Rec(r).voice_type = "alto" =>
                    Within(Rec(r).jitter, 5000, 15000) /\ Within(Rec(r).vibrato_rate, 500, 700)

C19_Witness ==
    \E r \in Invocations :
        /\ FromFallback(r)
        /\ Rec(r).voice_type = "alto"
        /\ Rec(r).jitter = 5000
        /\ Rec(r).shimmer = 6000
        /\ Rec(r).vibrato_rate = 700

(***************************************************************************)
(* C20  As stated: for n >= 3 values the mean pitch is the average of the  *)
(* sorted values without the floor(n/10) lowest and the floor(n/10)        *)
(* highest, a set that is never empty; for n < 3 it is the plain mean.     *)
(***************************************************************************)
MeanDone(r) == pc[r] = "mean_done"

\* the average of the sorted values without the low lowest and high highest
AverageWithout(pv, low, high) ==
    LET sorted == np_sort(pv)
        kept   == SubSeq(sorted, low + 1, Len(pv) - high)
    IN  SeqSum(kept) \div Len(kept)

Raised(score, pattern) == (score * (10000 + 20 * pattern)) \div 10000

LabelOf(score) ==
    CASE score < 800 -> "stable"
      [] score >= 800 /\ score < 1500 -> "controlled"
      [] score >= 1500 /\ score < 2500 -> "variable"
      [] score >= 2500 /\ score < 3500 -> "expressive"
      [] OTHER -> "highly expressive"

C21_RaisedFrom50AsStated ==
    \A r \in Invocations :
        Scored(r) =>
            LET q == in[r].file[1].q
            IN  results[r][1].dynamics =
                    LabelOf(IF Len(pitch_values[r]) >= 50
                            THEN Raised(q.dyn_score, q.dyn_pattern) ELSE q.dyn_score)

(***************************************************************************)
(* C21 (amended)  The score is multiplied exactly when the series has more *)
(* than 50 values; a series of exactly 50 is left unmultiplied.            *)
(***************************************************************************)
C21_RaisedAbove50 ==
    \A r \in Invocations :
        Scored(r) =>
            LET q == in[r].file[1].q
            IN  results[r][1].dynamics =
                    LabelOf(IF Len(pitch_values[r]) > 50
                            THEN Raised(q.dyn_score, q.dyn_pattern) ELSE q.dyn_score)

C21_Witness ==
    \E r \in Invocations :
        /\ Scored(r)
        /\ Len(pitch_values[r]) = 51
        /\ in[r].file[1].q.dyn_score = 500
        /\ in[r].file[1].q.dyn_pattern = 5000
        /\ results[r][1].dynamics = "highly expressive"

(***************************************************************************)
(* C22  The vibrato calculator follows one decision rule: a series of      *)
(* fewer than 20 values always gets the variance heuristic; a series of 20 *)
(* or more gets the spectral peak only when the peak lies in 3-8 Hz and    *)
(* is significant, otherwise the heuristic; the heuristic gives 0, 4.5,    *)
(* 5.5 or 6.5 at the CoV thresholds 0.001, 0.005 and 0.01; every rate is   *)
(* 0, 4.5, 5.5, 6.5 or within 3-8 Hz.                                      *)
(***************************************************************************)
\* the variance and the squared mean of a series, on whole hertz
VarOf(pv) ==
    LET h == [i \in 1..Len(pv) |-> pv[i] \div 100]
        m == SeqSum(h) \div Len(h)
    IN  SeqSum([i \in 1..Len(h) |-> (h[i] - m) * (h[i] - m)]) \div Len(h)

MeanSqOf(pv) ==
    LET h == [i \in 1..Len(pv) |-> pv[i] \div 100]
        m == SeqSum(h) \div Len(h)
    IN  m * m

\* cv < 0.001, cv < 0.005, cv < 0.01 as var * 1000 < mean ^ 2 and so on
HeuristicRate(pv) ==
    CASE 1000 * VarOf(pv) < MeanSqOf(pv) -> 0
      [] 1000 * VarOf(pv) >= MeanSqOf(pv) /\ 200 * VarOf(pv) < MeanSqOf(pv) -> 450
      [] 200 * VarOf(pv) >= MeanSqOf(pv) /\ 100 * VarOf(pv) < MeanSqOf(pv) -> 550
      [] OTHER -> 650

Rated(r) == results[r] # <<>>

C22_VibratoRule ==
    \A r \in Invocations :
        Rated(r) =>
            LET pv   == pitch_values[r]
                q    == in[r].file[1].q
                rate == results[r][1].vibrato_rate
            IN  /\ Len(pv) < 20 => rate = HeuristicRate(pv)
                /\ Len(pv) >= 20 /\ in[r].err # "vibrato" =>
                        rate = IF q.vib_peak >= 300 /\ q.vib_peak <= 800 /\ q.vib_sig
                               THEN q.vib_peak ELSE HeuristicRate(pv)
                /\ rate \in {0, 450, 550, 650} \/ (rate >= 300 /\ rate <= 800)

\* a series of 19 values whose significant 3 Hz peak is not used
C22_Witness ==
    \E r \in Invocations :
        /\ Rated(r)
        /\ Len(pitch_values[r]) = 19
        /\ in[r].file[1].q.vib_peak = 300
        /\ in[r].file[1].q.vib_sig
        /\ results[r][1].vibrato_rate = 450

(***************************************************************************)
(* C23  The calculators' outputs stay inside their own clamp ranges on     *)
(* every path: jitter is 0.015 for fewer than 5 values or on an internal   *)
(* error and otherwise within [0.001, 0.04]; shimmer is within             *)
(* [0.005, 0.05] by the peak method, by the RMS estimate and by the fixed  *)
(* default; so the Validator's jitter and shimmer clamps change nothing.   *)
(***************************************************************************)
C23_MetricsWithinClamps ==
    \A r \in Invocations :
        results[r] # <<>> =>
            LET m == results[r][1]
            IN  /\ Len(pitch_values[r]) < 5 \/ in[r].err = "jitter" => m.jitter = 15000
                /\ m.jitter >= 1000 /\ m.jitter <= 40000
                /\ m.shimmer >= 5000 /\ m.shimmer <= 50000
                /\ ret[r] # <<>> =>
                        /\ ret[r][1].jitter = m.jitter
                        /\ ret[r][1].shimmer = m.shimmer

\* four values, too few peaks and a large RMS variation, after the clamps
C23_Witness ==
    \E r \in Invocations :
        /\ pc[r] = "metric_clamped"
        /\ Len(pitch_values[r]) = 4
        /\ in[r].file[1].q.shim_peaks < 5
        /\ in[r].file[1].q.shim_rms > 30000
        /\ ret[r][1].jitter = 15000
        /\ ret[r][1].shimmer = 30000

(***************************************************************************)
(* C24  A calculator that cannot apply its preferred method or fails       *)
(* internally substitutes a simpler method or a fixed default, and the     *)
(* invocation stays on the measured path through the Validator: the        *)
(* failure of one calculator never sends the invocation to the fallback.   *)
(***************************************************************************)
\* no stage of the invocation raises and the series is long enough
CalculatorsReached(r) ==
    /\ in[r].path = "ok"
    /\ in[r].fault = "none"
    /\ Len(in[r].file[1].pitches) >= 10

\* the value that stands in for the calculator whose try block raised
Substituted(r) ==
    LET m  == results[r][1]
        pv == pitch_values[r]
        b  == in[r].file[1]
    IN  /\ in[r].err = "vibrato" /\ Len(pv) >= 20 => m.vibrato_rate = 500
        /\ in[r].err = "jitter" => m.jitter = 15000
        /\ in[r].err = "shimmer" =>
                m.shimmer = IF b.q.shim_rms < 0 THEN 20000
                            ELSE IF b.q.shim_rms < 10000 THEN 10000
                            ELSE IF b.q.shim_rms > 30000 THEN 30000
                            ELSE b.q.shim_rms
        /\ in[r].err = "shimmer_both" => m.shimmer = 20000
        /\ in[r].err = "dynamics" => m.dynamics = "stable"
        /\ in[r].err = "voice_type" =>
                m.voice_type = ThresholdClass(SeqSum(pv) \div Len(pv))
        /\ in[r].err = "harmonic" =>
                m.voice_type = _determine_voice_type_advanced(pv, 50, "none")

Extracted(r) == pc[r] = "extract_done"

C25_SeriesInRangeAsStated ==
    \A r \in Invocations :
        Extracted(r) =>
            \A i \in DOMAIN pitch_values[r] :
                /\ pitch_values[r][i] > 0
                /\ pitch_values[r][i] >= Hz(65)
                /\ pitch_values[r][i] <= Hz(2093)

(***************************************************************************)
(* C25 (amended)  Every value of the series is greater than 0 on both      *)
(* paths; it is within [65, 2093] Hz when the two-pass method succeeds;    *)
(* when the simple tracker is used each value is the strongest peak of a   *)
(* frame of the plain signal, whatever its frequency.                      *)
(***************************************************************************)
C25_SeriesPositive ==
    \A r \in Invocations :
        Extracted(r) =>
            LET track == in[r].file[1]
            IN  \A i \in DOMAIN pitch_values[r] :
                    /\ pitch_values[r][i] > 0
                    /\ ~track.raises =>
                            /\ pitch_values[r][i] >= Hz(65)
                            /\ pitch_values[r][i] <= Hz(2093)
                    /\ track.raises =>
                            \E t \in DOMAIN track.simple :
                                \E k \in DOMAIN track.simple[t] :
                                    /\ track.simple[t][k].pitch = pitch_values[r][i]
                                    /\ \A j \in DOMAIN track.simple[t] :
                                            track.simple[t][j].mag <= track.simple[t][k].mag

\* the simple tracker has returned a 3000 Hz peak beside a 220 Hz one and
\* has left out a frame without a peak
C25_Witness ==
    \E r \in Invocations :
        /\ Extracted(r)
        /\ in[r].file[1].raises
        /\ pitch_values[r] = <<Hz(220), Hz(3000)>>

(***************************************************************************)
(* C26  On every invocation that returns a measured result the stages ran  *)
(* in the order decode, preprocess, pitch extraction, calculators,         *)
(* Validator, each exactly once and none re-entered; the Validator starts  *)
(* only after all eight fields have been computed; the Fallback Generator  *)
(* has not run at all.                                                     *)
(***************************************************************************)
StageRank(stage) ==
    CASE stage = "decode" -> 1
      [] stage = "preprocess" -> 2
      [] stage = "extract" -> 3
      [] stage = "calculate" -> 4
      [] stage = "validate" -> 5
      [] stage = "fallback" -> 6

MeasuredStages == <<"decode", "preprocess", "extract", "calculate", "validate">>

C26_StagesInOrder ==
    /\ [](\A r \in Invocations :
            /\ Measured(r) => log[r] = MeasuredStages
            /\ (\E i \in DOMAIN log[r] : log[r][i] = "validate") =>
                    /\ results[r] # <<>>
                    /\ DOMAIN results[r][1] = Fields)
    /\ [][\A r \in Invocations :
            log'[r] # log[r] =>
                /\ Len(log'[r]) = Len(log[r]) + 1
                /\ SubSeq(log'[r], 1, Len(log[r])) = log[r]
                /\ log'[r][Len(log'[r])] # "fallback" =>
                        log[r] = SubSeq(MeasuredStages, 1,
                                        StageRank(log'[r][Len(log'[r])]) - 1)
                /\ log'[r][Len(log'[r])] = "validate" => results[r] # <<>>]_vars

C26_Witness ==
    \E r \in Invocations :
        /\ Measured(r)
        /\ log[r] = MeasuredStages
        /\ DOMAIN results[r][1] = Fields
        /\ Len(pitch_values[r]) = 51

(***************************************************************************)
(* C27  A fallback record is returned exactly as it was generated: the     *)
(* Validator's override, clamps and span check are never applied to it.    *)
(* When a stage raises after a successful decode the Fallback Generator is *)
(* called without the decoded buffer, so its estimate comes from the hint  *)
(* or from the random draw, never from the audio.                          *)
(***************************************************************************)
\* the buffer the fallback was called with: the decoded audio on the
\* too-few-values path, none from the except handler
AudioGiven(r) == IF TooFewValues(r) THEN in[r].file ELSE <<>>

\* what the generator makes of the invocation's arguments at the sample
\* points p, j, f and v of its four uniform draws
Generated(r, p, j, f, v) ==
    _enhanced_fallback_analysis(in[r].hint, AudioGiven(r),
        [pitch |-> p, jitter |-> j, factor |-> f, vibrato |-> v, dynamics |-> "stable"])

RaisedAfterDecode(r) == in[r].path = "ok" /\ StageRaised(r)

C27_FallbackAsGenerated ==
    \A r \in Invocations :
        FromFallback(r) =>
            /\ \E k \in 0..RandSteps :
                    /\ \E g \in {Generated(r, k, 0, 0, 0)} :
                            /\ g # <<>>
                            /\ Rec(r).mean_pitch = g[1].mean_pitch
                            /\ Rec(r).voice_type = g[1].voice_type
                            /\ Rec(r).lowest_note = g[1].lowest_note
                            /\ Rec(r).highest_note = g[1].highest_note
                    /\ \E j, f \in 0..RandSteps :
                            \E g \in {Generated(r, k, j, f, 0)} :
                                /\ Rec(r).jitter = g[1].jitter
                                /\ Rec(r).shimmer = g[1].shimmer
                    /\ \E v \in 0..RandSteps :
                            \E g \in {Generated(r, k, 0, 0, v)} :
                                Rec(r).vibrato_rate = g[1].vibrato_rate
            /\ Rec(r).dynamics \in {"stable", "controlled", "variable"}
            /\ RaisedAfterDecode(r) =>
                    IF Truthy(in[r].hint) THEN BuiltOn(r, in[r].hint.val)
                    ELSE BuiltOnRandom(r)

\* the extractor raised on a recording whose first two seconds would have
\* given a 220 Hz estimate; without a hint the record is built on a draw
C27_Witness ==
    \E r \in Invocations :
        /\ FromFallback(r)
        /\ in[r].fault = "extract"
        /\ in[r].hint = NoHint
        /\ in[r].file[1].quick # <<>>
        /\ Median(in[r].file[1].quick) = Hz(220)
        /\ Rec(r).mean_pitch = Hz(400)

(***************************************************************************)
(* C28  The voice_type of a fallback record is the simple threshold        *)
(* classification of the mean_pitch the record reports: clipping the       *)
(* estimate to the pitch range of its voice type never crosses a boundary  *)
(* of the classifier, and the reported mean_pitch is within [85, 440] Hz.  *)
(***************************************************************************)
C28_FallbackTypeMatchesMean ==
    \A r \in Invocations :
        FromFallback(r) =>
            /\ Rec(r).mean_pitch >= Hz(85)
            /\ Rec(r).mean_pitch <= Hz(440)
            /\ Rec(r).voice_type =
                    (CASE Rec(r).mean_pitch < Hz(250) -> "bass"
                       [] Rec(r).mean_pitch >= Hz(250) /\ Rec(r).mean_pitch < Hz(300) -> "baritone"
                       [] Rec(r).mean_pitch >= Hz(300) /\ Rec(r).mean_pitch < Hz(350) -> "tenor"
                       [] OTHER -> "alto")

\* a hint of 345 Hz clipped to the top of the tenor range
C28_Witness ==
    \E r \in Invocations :
        /\ FromFallback(r)
        /\ in[r].hint = Num(Hz(345))
        /\ Rec(r).mean_pitch = Hz(340)
        /\ Rec(r).voice_type = "tenor"

(***************************************************************************)
(* C29  In every fallback record the reported mean pitch lies inside the   *)
(* reported note range: frequency(lowest_note) <= mean_pitch <=            *)
(* frequency(highest_note), for every hint and every estimate.             *)
(***************************************************************************)
C29_MeanWithinNoteRange ==
    \A r \in Invocations :
        FromFallback(r) =>
            /\ note_to_hz(Rec(r).lowest_note) <= Rec(r).mean_pitch
            /\ Rec(r).mean_pitch <= note_to_hz(Rec(r).highest_note)

(***************************************************************************)
(* C30  A hint that is zero or negative is never used as a pitch: a        *)
(* fallback record built for such a hint is built on the audio estimate    *)
(* or on a random value in [150, 400] Hz, as if the hint were absent, and  *)
(* on the measured path the Validator never puts a non-positive hint in    *)
(* the place of the computed mean.                                         *)
(***************************************************************************)
NonPositive(h) == h.kind = "num" /\ h.val <= 0

C30_NonPositiveHintUnused ==
    \A r \in Invocations :
        NonPositive(in[r].hint) =>
            /\ FromFallback(r) =>
                    IF AudioYields(r) THEN BuiltOn(r, Median(in[r].file[1].quick))
                    ELSE BuiltOnRandom(r)
            /\ Measured(r) =>
                    /\ Rec(r).mean_pitch # in[r].hint.val
                    /\ Rec(r).mean_pitch =
                            (IF results[r][1].mean_pitch < Hz(80) THEN Hz(80)
                             ELSE IF results[r][1].mean_pitch > Hz(800) THEN Hz(800)
                             ELSE results[r][1].mean_pitch)

====
